---- MODULE Spec2Model ----
(***************************************************************************)
(* Model of the analytic core of the Fortune page                          *)
(* (src/ProTrader-UI/src/pages/Logs.tsx): the timestamp normalizer, the    *)
(* wealth series and its nearest-sample lookup, the purchase clustering    *)
(* and label placement, the realized-profit reconciliation and the        *)
(* margin table.                                                           *)
(*                                                                         *)
(* JavaScript numbers are modelled as records [k, v]: k = "num" is a       *)
(* finite number of value v, k = "nan" is NaN, k = "inf" is +Infinity      *)
(* (v = 1) or -Infinity (v = -1), k = "null" is null and k = "undef" is    *)
(* undefined (a field the record lacks).  Instants are counted in units    *)
(* of 10^9 ms, so that 1e12 ms is the integer 1000; every operation of     *)
(* the code on instants is a comparison, a difference or a product by      *)
(* 1000, all of which commute with the change of unit.                     *)
(***************************************************************************)
EXTENDS Integers, Sequences, FiniteSets, TLC

VARIABLES
    points,          \* useState points: the raw wealth samples (KamasPoint[])
    kamasSeries,     \* useMemo kamasSeries: the sorted finite chart points
    currentFortune,  \* useMemo currentFortune
    purchases,       \* useState purchases (PurchaseEvent[])
    totalProfit,     \* useMemo totalProfit
    chart,           \* chartRef.current: scales and chart area, or not mounted
    tooltipGroups,   \* useState tooltipGroups
    rafPending,      \* the requestAnimationFrame callback of the effect is due
    response,        \* the answer of the history fetch in flight
    query,           \* argument of the last findClosestAmount call
    closest,         \* result of the last findClosestAmount call
    items,           \* useState items: the selected resources
    settings,        \* useState settings: the margin rule of every row
    medianMap,       \* useState medianMap: the median price of every row
    rows,            \* the purchase value and profit the table shows per row
    selectionPending,\* loadSelection() has not answered yet
    mediansPending,  \* the getHdvPriceStat calls have not all answered yet
    hoveredTooltipId,   \* useState hoveredTooltipId: a cluster id or null
    hideTooltipTimeout, \* useRef hideTooltipTimeout: a timer handle or none
    timers,          \* the window's pending timeouts set by scheduleHideTooltip
    timeRange,       \* useState timeRange
    issued,          \* the number of history fetches started so far
    superseded,      \* the fetches in flight whose effect has been cleaned up
    pickerQuery,     \* ResourcePicker: useState query
    results,         \* ResourcePicker: useState results
    loading,         \* ResourcePicker: useState loading
    aborted,         \* ResourcePicker: abortRef.current.aborted
    debounce,        \* ResourcePicker: the query of the pending debounce timer
    searches,        \* ResourcePicker: the searchItems calls in flight
    sockets,         \* makeUIWebSocket: the state of every WebSocket constructed
    stopped,         \* makeUIWebSocket: stopped
    reconnects,      \* makeUIWebSocket: the pending setTimeout(connect) timers
    connects,        \* makeUIWebSocket: the calls of connect so far
    valid,           \* ConfigEditor: useState valid
    yamlOk,          \* ConfigEditor: whether the agent accepts yamlText
    saving,          \* ConfigEditor: where the onSave in progress stands
    answers,         \* ConfigEditor: the config_valid messages in flight
    sent             \* ConfigEditor: the set_config commands sent

pageVars == <<points, kamasSeries, currentFortune, purchases, totalProfit, chart,
              tooltipGroups, rafPending, response, query, closest>>
marginVars == <<items, settings, medianMap, rows, selectionPending, mediansPending>>
hoverVars == <<hoveredTooltipId, hideTooltipTimeout, timers>>
\* What the steps of the chart leave alone, and what those of the margin
\* table leave alone
rangeVars == <<timeRange, issued, superseded>>
pickerVars == <<pickerQuery, results, loading, aborted, debounce, searches>>
socketVars == <<sockets, stopped, reconnects, connects>>
editorVars == <<valid, yamlOk, saving, answers, sent>>
widgetVars == <<pickerVars, socketVars, editorVars>>
sideVars == <<hoverVars, rangeVars, marginVars, widgetVars>>
besideMargin == <<pageVars, hoverVars, rangeVars, widgetVars>>
besideHover == <<pageVars, rangeVars, marginVars, widgetVars>>
besideRange == <<hoverVars, marginVars, widgetVars>>
besidePicker == <<pageVars, hoverVars, rangeVars, marginVars, socketVars, editorVars>>
besideSocket == <<pageVars, hoverVars, rangeVars, marginVars, pickerVars, editorVars>>
besideEditor == <<pageVars, hoverVars, rangeVars, marginVars, pickerVars, socketVars>>
vars == <<pageVars, marginVars, hoverVars, rangeVars, widgetVars>>

--------------------------------------------------------------------------
(* JavaScript numbers *)

Num(n) == [k |-> "num", v |-> n]
NaN == [k |-> "nan", v |-> 0]
PosInf == [k |-> "inf", v |-> 1]
NegInf == [k |-> "inf", v |-> -1]
Null == [k |-> "null", v |-> 0]
Undefined == [k |-> "undef", v |-> 0]

\* Number.isFinite
IsFinite(x) == x.k = "num"

Abs(n) == IF n < 0 THEN -n ELSE n
Min2(a, b) == IF a < b THEN a ELSE b
Max2(a, b) == IF a > b THEN a ELSE b

--------------------------------------------------------------------------
(* Timestamp strings.  A raw timestamp is a record                         *)
(*   pad  : the string has leading/trailing white space                    *)
(*   form : "none"     no string at all (undefined or null)                *)
(*          "empty"    the empty string                                    *)
(*          "num"      a decimal number of value n                         *)
(*          "inf"      the text Infinity (n = 1) or -Infinity (n = -1)     *)
(*          "date"     YYYY-MM-DD, the day starting at UTC instant n       *)
(*          "dt"       date, separator, time: wall-clock reading n         *)
(*          "junk"     anything else                                       *)
(*   sep  : "T" or " " between date and time (form "dt")                   *)
(*   tz   : "" none, "Z", or "off" for a +hh:mm offset of `off` units      *)

Str(pad, form, n, sep, tz, off) ==
    [pad |-> pad, form |-> form, n |-> n, sep |-> sep, tz |-> tz, off |-> off]

NumStr(n) == Str(FALSE, "num", n, "", "", 0)
IsoStr(n) == Str(FALSE, "dt", n, "T", "Z", 0)
EmptyStr == Str(FALSE, "empty", 0, "", "", 0)
JunkStr == Str(FALSE, "junk", 0, "", "", 0)
NoStr == Str(FALSE, "none", 0, "", "", 0)

\* The truthiness of a string-valued field: neither missing nor ""
Truthy(s) == s.form # "none" /\ ~(s.form = "empty" /\ ~s.pad)

\* String.prototype.trim
Trim(s) == [s EXCEPT !.pad = FALSE]

\* Number(raw) of a trimmed, non-empty string
ToNumber(s) ==
    CASE s.form = "num" -> Num(s.n)
      [] s.form = "inf" -> [k |-> "inf", v |-> s.n]
      [] OTHER -> NaN

\* raw.includes("T") ? raw : raw.replace(" ", "T")
Normalize(s) ==
    IF s.form = "dt" /\ s.sep = " " THEN [s EXCEPT !.sep = "T"] ELSE s

\* /(?:Z|[+-]\d{2}:?\d{2})$/i
HasTimezone(s) == s.form = "dt" /\ s.tz # ""

\* /^\d{4}-\d{2}-\d{2}$/
IsBareDate(s) == s.form = "date"

\* `${normalized}T00:00:00Z` of a bare date
MidnightUtc(s) == Str(FALSE, "dt", s.n, "T", "Z", 0)

\* `${normalized}Z`
AppendZ(s) ==
    IF s.form = "dt" /\ s.tz = "" THEN [s EXCEPT !.tz = "Z"] ELSE JunkStr

\* The offset of local time to UTC of the machine the page runs on.
LocalOffset == 0

\* Date.parse: date-only forms are UTC, date-time forms without a zone are
\* local time, a zone is applied, everything else does not parse.
DateParse(s) ==
    CASE s.form = "date" -> Num(s.n)
      [] s.form = "dt" /\ s.tz = "Z" -> Num(s.n)
      [] s.form = "dt" /\ s.tz = "off" -> Num(s.n - s.off)
      [] s.form = "dt" /\ s.tz = "" -> Num(s.n - LocalOffset)
      [] OTHER -> NaN

\* pushCandidate: skip a value already in the list
PushCandidate(cands, value) ==
    IF \E i \in 1..Len(cands) : cands[i] = value THEN cands
    ELSE Append(cands, value)

\* numeric < 1e12 ? numeric * 1000 : numeric
SecondsLimit == 1000
MsPerSecond == 1000

ParseNumeric(numeric) ==
    IF numeric.k = "inf"
    THEN numeric
    ELSE IF numeric.v < SecondsLimit THEN Num(numeric.v * MsPerSecond)
    ELSE numeric

\* Faulty variant: what Date.parse returns is taken for seconds as well
RECURSIVE FirstParsedAsSeconds(_)
FirstParsedAsSeconds(cands) ==
    IF cands = <<>> THEN NaN
    ELSE IF DateParse(Head(cands)).k # "nan" THEN ParseNumeric(DateParse(Head(cands)))
    ELSE FirstParsedAsSeconds(Tail(cands))

\* The loop over the candidates: the first that Date.parse accepts
RECURSIVE FirstParsed(_)
FirstParsed(cands) ==
    IF cands = <<>> THEN NaN
    ELSE IF DateParse(Head(cands)).k # "nan" THEN DateParse(Head(cands))
    ELSE FirstParsed(Tail(cands))

\* The operators below take as parameters the values the code binds with
\* const, one operator per stretch of the function.

\* if (normalized !== raw) pushCandidate(raw); then the loop over candidates
ParseCandidates3(raw, normalized, cands) ==
    FirstParsed(IF normalized # raw THEN PushCandidate(cands, raw) ELSE cands)

\* if (hasTimezone) pushCandidate(normalized) else { if
\* (!normalized.endsWith("Z")) pushCandidate(`${normalized}Z`);
\* pushCandidate(normalized) }
ParseCandidates2(raw, normalized, cands) ==
    ParseCandidates3(raw, normalized,
        IF HasTimezone(normalized) THEN PushCandidate(cands, normalized)
        ELSE PushCandidate(
               IF ~(normalized.form = "dt" /\ normalized.tz = "Z")
               THEN PushCandidate(cands, AppendZ(normalized)) ELSE cands,
               normalized))

\* Faulty variant: no test of the empty string, of which Number is 0
ParseRawOfEmpty(raw, numeric, normalized) ==
    IF raw.form = "empty" THEN ParseNumeric(Num(0))
    ELSE IF numeric.k # "nan" THEN ParseNumeric(numeric)
    ELSE ParseCandidates2(raw, normalized,
            IF IsBareDate(normalized)
            THEN PushCandidate(<<>>, MidnightUtc(normalized)) ELSE <<>>)

\* if (!raw) return NaN; the numeric branch; the candidates
ParseRaw(raw, numeric, normalized) ==
    IF raw.form = "empty" THEN NaN
    ELSE IF numeric.k # "nan" THEN ParseNumeric(numeric)
    ELSE ParseCandidates2(raw, normalized,
            IF IsBareDate(normalized)
            THEN PushCandidate(<<>>, MidnightUtc(normalized)) ELSE <<>>)

ParseTrimmed(raw) == ParseRaw(raw, ToNumber(raw), Normalize(raw))

\* typeof input === "string" ? input.trim() : ""
parseTimestamp(input) ==
    ParseTrimmed(IF input.form = "none" THEN EmptyStr ELSE Trim(input))

--------------------------------------------------------------------------
(* The wealth series (Time-Series Store) *)

\* points.map(p => ({x: parseTimestamp(p.t), y: p.amount, rawTimestamp: p.t}))
ToChartPoint(p) == [x |-> parseTimestamp(p.t), y |-> p.amount, rawTimestamp |-> p.t]

\* .filter(p => Number.isFinite(p.x) && Number.isFinite(p.y)), the finite
\* coordinates kept as plain integers
RECURSIVE FilterFinite(_)
FilterFinite(ps) ==
    IF ps = <<>> THEN <<>>
    ELSE LET c == ToChartPoint(Head(ps))
         IN  IF IsFinite(c.x) /\ IsFinite(c.y)
             THEN <<[x |-> c.x.v, y |-> c.y.v, rawTimestamp |-> c.rawTimestamp]>>
                  \o FilterFinite(Tail(ps))
             ELSE FilterFinite(Tail(ps))

\* One step of the stable sort by (a, b) => a.x - b.x: e goes after every
\* element whose x is not greater.
RECURSIVE InsertByX(_, _)
InsertByX(sorted, e) ==
    IF sorted = <<>> THEN <<e>>
    ELSE IF e.x < Head(sorted).x THEN <<e>> \o sorted
    ELSE <<Head(sorted)>> \o InsertByX(Tail(sorted), e)

\* Faulty variant: the filtered points are left in the order of the input
SortByXLeftOut(s) == s

RECURSIVE SortByX(_)
SortByX(s) ==
    IF s = <<>> THEN <<>>
    ELSE InsertByX(SortByX(SubSeq(s, 1, Len(s) - 1)), s[Len(s)])

BuildSeries(pts) == SortByX(FilterFinite(pts))

\* Faulty variant: an empty series has the fortune 0
LatestValueOrZero(series) ==
    IF Len(series) = 0 THEN Num(0) ELSE Num(series[Len(series)].y)

\* kamasSeries.length === 0 ? null : kamasSeries[length - 1].y
LatestValue(series) ==
    IF Len(series) = 0 THEN Null ELSE Num(series[Len(series)].y)

\* The binary-search loop of findClosestAmount (series indexed from 0 in the
\* code, from 1 here): the final value of low.
RECURSIVE LowerBound(_, _, _, _)
LowerBound(series, timestamp, low, high) ==
    IF low < high
    THEN LET mid == (low + high) \div 2
         IN  IF series[mid + 1].x < timestamp
             THEN LowerBound(series, timestamp, mid + 1, high)
             ELSE LowerBound(series, timestamp, low, mid)
    ELSE low

\* Faulty variant: the sample before the insertion point is not looked at
CandidatesAfterOnly(series, low) ==
    IF low < Len(series) THEN <<series[low + 1]>> ELSE <<>>

\* candidates: kamasSeries[low] first, then kamasSeries[low - 1]
Candidates(series, low) ==
    (IF low < Len(series) THEN <<series[low + 1]>> ELSE <<>>)
    \o (IF low > 0 THEN <<series[low]>> ELSE <<>>)

\* The scan for the smallest delta: a later candidate replaces best only
\* when its delta is strictly smaller.
\* Faulty variant: a later candidate also replaces best when its delta is equal
RECURSIVE BestOfTieReplaces(_, _, _, _)
BestOfTieReplaces(cands, timestamp, i, best) ==
    IF i > Len(cands) THEN best
    ELSE IF Abs(cands[i].x - timestamp) <= Abs(best.x - timestamp)
         THEN BestOfTieReplaces(cands, timestamp, i + 1, cands[i])
         ELSE BestOfTieReplaces(cands, timestamp, i + 1, best)

RECURSIVE BestOf(_, _, _, _)
BestOf(cands, timestamp, i, best) ==
    IF i > Len(cands) THEN best
    ELSE IF Abs(cands[i].x - timestamp) < Abs(best.x - timestamp)
         THEN BestOf(cands, timestamp, i + 1, cands[i])
         ELSE BestOf(cands, timestamp, i + 1, best)

ClosestOf(series, timestamp, cands) ==
    IF Len(cands) = 0 THEN Num(series[1].y)
    ELSE Num(BestOf(cands, timestamp, 2, cands[1]).y)

findClosestAmount(series, timestamp) ==
    IF Len(series) = 0 THEN Null
    ELSE ClosestOf(series, timestamp,
            Candidates(series, LowerBound(series, timestamp, 0, Len(series))))

--------------------------------------------------------------------------
(* Realized profit *)

\* Faulty variant: a missing totalPrice counts as 0
MinusMissingIsZero(a, b) ==
    CASE b.k = "num" -> Num(a - b.v)
      [] b.k \in {"null", "undef"} -> Num(a)
      [] b.k = "inf" -> [k |-> "inf", v |-> -b.v]
      [] OTHER -> NaN

\* saleTotal - purchase.totalPrice for a finite saleTotal a: null counts as
\* 0, undefined and NaN give NaN, an infinity gives the opposite infinity.
Minus(a, b) ==
    CASE b.k = "num" -> Num(a - b.v)
      [] b.k = "null" -> Num(a)
      [] b.k = "inf" -> [k |-> "inf", v |-> -b.v]
      [] OTHER -> NaN

\* Faulty variant: a sale at the very instant of the purchase is refused
SaleStatsStrictlyLater(purchase, purchaseTimestamp, saleTimestamp) ==
    LET saleIsChronologicalMatch ==
            IF IsFinite(saleTimestamp) /\ IsFinite(purchaseTimestamp)
            THEN saleTimestamp.v > purchaseTimestamp.v
            ELSE TRUE
        saleTotal == IF saleIsChronologicalMatch /\ IsFinite(purchase.saleTotalPrice)
                     THEN purchase.saleTotalPrice ELSE Null
        delta == IF saleTotal.k = "num"
                 THEN Minus(saleTotal.v, purchase.totalPrice) ELSE NaN
    IN  [saleTotal |-> saleTotal,
         profit |-> IF saleTotal.k = "num" /\ IsFinite(delta) THEN delta ELSE Null]

\* saleTotal and profit, given the two parsed timestamps
SaleStats(purchase, purchaseTimestamp, saleTimestamp) ==
    LET hasPurchaseTimestamp == IsFinite(purchaseTimestamp)
        hasSaleTimestamp == IsFinite(saleTimestamp)
        saleIsChronologicalMatch ==
            IF hasSaleTimestamp /\ hasPurchaseTimestamp
            THEN saleTimestamp.v >= purchaseTimestamp.v
            ELSE TRUE
        rawSaleTotal == IF saleIsChronologicalMatch
                        THEN purchase.saleTotalPrice ELSE Null
        saleTotal == IF saleIsChronologicalMatch /\ IsFinite(rawSaleTotal)
                     THEN rawSaleTotal ELSE Null
        delta == IF saleTotal.k = "num"
                 THEN Minus(saleTotal.v, purchase.totalPrice) ELSE NaN
        profit == IF saleTotal.k = "num" /\ IsFinite(delta) THEN delta ELSE Null
    IN  [saleTotal |-> saleTotal, profit |-> profit]

computeSaleStats(purchase) ==
    SaleStats(purchase,
              IF Truthy(purchase.datetime)
              THEN parseTimestamp(purchase.datetime) ELSE NaN,
              IF Truthy(purchase.saleDatetime)
              THEN parseTimestamp(purchase.saleDatetime) ELSE Null)

\* The loop of totalProfit: sum starts at 0 and takes every non-null profit,
\* in list order.
\* Faulty variant: the loop ends at the first purchase without a profit
RECURSIVE SumProfitStopsAtNull(_, _)
SumProfitStopsAtNull(ps, sum) ==
    IF ps = <<>> THEN sum
    ELSE IF computeSaleStats(Head(ps)).profit.k = "num"
         THEN SumProfitStopsAtNull(Tail(ps), sum + computeSaleStats(Head(ps)).profit.v)
         ELSE sum

RECURSIVE SumProfit(_, _)
SumProfit(ps, sum) ==
    IF ps = <<>> THEN sum
    ELSE LET profit == computeSaleStats(Head(ps)).profit
         IN  SumProfit(Tail(ps), IF profit.k = "num" THEN sum + profit.v ELSE sum)

TotalProfit(ps) == SumProfit(ps, 0)

--------------------------------------------------------------------------
(* Clustering of the purchases and placement of their labels.              *)
(* Pixel coordinates are integers; an average xSum / count is kept as the  *)
(* exact fraction [n, d] with d > 0.                                       *)

Rat(n, d) == [n |-> n, d |-> d]
RLe(a, b) == a.n * b.d <= b.n * a.d
RLt(a, b) == a.n * b.d < b.n * a.d
RMax(a, b) == IF RLt(a, b) THEN b ELSE a
RMin(a, b) == IF RLt(b, a) THEN b ELSE a

\* The chart is the record
\*   mounted   : chartRef.current, its scales and its chartArea exist
\*   xMin,xMax : xScale.min and xScale.max (JavaScript numbers, or undefined)
\*   xOk, x0, xm : xScale.getPixelForValue(ts) is x0 + xm * ts (a linear
\*                 scale, options.scales.x), or NaN when xOk is FALSE
\*   yOk, y0, ym : yScale.getPixelForValue(v) is y0 - ym * v, or NaN
\*   area      : chartArea, [left, right, top, bottom]
XPixel(c, ts) == IF c.xOk THEN Num(c.x0 + c.xm * ts) ELSE NaN
YPixel(c, v) == IF c.yOk THEN Num(c.y0 - c.ym * v) ELSE NaN

\* typeof raw === "number" ? raw : Number(raw ?? fallback)
ScaleBound(raw, fallback) ==
    IF raw.k \in {"null", "undef"} THEN fallback ELSE raw

\* The body of the loop that fills positions, from `const x` on: the entry
\* of a purchase whose instant ts is finite and in the view range, or none
PositionOf(purchase, ts, x, amount, series, c) ==
    LET fallbackAmount == IF Len(series) > 0 THEN series[Len(series)].y ELSE 0
        yValue == IF amount.k = "num" THEN amount.v ELSE fallbackAmount
        y == YPixel(c, yValue)
    IN  IF ~IsFinite(x) THEN <<>>
        ELSE IF ~IsFinite(y) THEN <<>>
        ELSE <<[purchase |-> purchase, x |-> x.v, y |-> y.v]>>

\* Faulty variant: an instant on a bound of the view range is skipped too
InViewExclusive(ts, min, max) ==
    /\ IsFinite(ts)
    /\ ~(IsFinite(min) /\ ts.v <= min.v)
    /\ ~(IsFinite(max) /\ ts.v >= max.v)

\* The three `continue` on the instant
InView(ts, min, max) ==
    /\ IsFinite(ts)
    /\ ~(IsFinite(min) /\ ts.v < min.v)
    /\ ~(IsFinite(max) /\ ts.v > max.v)

PositionAt(purchase, ts, series, c) ==
    IF ~InView(ts, ScaleBound(c.xMin, NegInf), ScaleBound(c.xMax, PosInf))
    THEN <<>>
    ELSE PositionOf(purchase, ts, XPixel(c, ts.v),
                    findClosestAmount(series, ts.v), series, c)

\* for (const purchase of purchases): one entry per purchase that passes
\* every `continue`, in the order of the list
RECURSIVE Positions(_, _, _)
Positions(ps, series, c) ==
    IF ps = <<>> THEN <<>>
    ELSE PositionAt(Head(ps), parseTimestamp(Head(ps).datetime), series, c)
         \o Positions(Tail(ps), series, c)

thresholdPx == 56

NewGroup(pos) ==
    [xSum |-> pos.x, ySum |-> pos.y, count |-> 1, yMin |-> pos.y,
     purchases |-> <<pos.purchase>>]

\* Faulty variant: the sum of the xs is taken for the centre of the group
FarFromSum(last, center, threshold) ==
    Abs(center - last.xSum) > threshold

\* Faulty variant: the threshold is taken for twice the distance allowed
FarFromHalfway(last, center, threshold) ==
    2 * Abs(center * last.count - last.xSum) > threshold * last.count

\* Math.abs(center - last.xSum / last.count) > threshold
FarFrom(last, center, threshold) ==
    Abs(center * last.count - last.xSum) > threshold * last.count

\* Faulty variant: the purchase replaces the members instead of joining them
JoinGroupOverwrites(last, pos) ==
    [xSum |-> last.xSum + pos.x, ySum |-> last.ySum + pos.y,
     count |-> last.count + 1,
     yMin |-> IF pos.y < last.yMin THEN pos.y ELSE last.yMin,
     purchases |-> <<pos.purchase>>]

JoinGroup(last, pos) ==
    [xSum |-> last.xSum + pos.x, ySum |-> last.ySum + pos.y,
     count |-> last.count + 1,
     yMin |-> IF pos.y < last.yMin THEN pos.y ELSE last.yMin,
     purchases |-> Append(last.purchases, pos.purchase)]

\* The sweep `for (const pos of positions)` over the sorted positions
RECURSIVE Sweep(_, _, _)
Sweep(positions, grouped, threshold) ==
    IF positions = <<>> THEN grouped
    ELSE LET pos == Head(positions)
             n == Len(grouped)
         IN  IF n = 0
             THEN Sweep(Tail(positions), <<NewGroup(pos)>>, threshold)
             ELSE IF FarFrom(grouped[n], pos.x, threshold)
             THEN Sweep(Tail(positions), Append(grouped, NewGroup(pos)), threshold)
             ELSE Sweep(Tail(positions),
                        [grouped EXCEPT ![n] = JoinGroup(grouped[n], pos)],
                        threshold)

LabelMarginX == 16
LabelMarginY == 8
LabelRowHeight == 22
LabelPadding == 18

EstimatedHeight(count) == count * LabelRowHeight + LabelPadding

\* group.purchases.map(p => `${p.id}-${p.datetime}`).join("|") || String(avgX):
\* the text is kept as the list of its (id, datetime) parts, and as the
\* anchor when that list is empty.
RECURSIVE IdParts(_)
IdParts(ps) ==
    IF ps = <<>> THEN <<>>
    ELSE <<<<Head(ps).id, Head(ps).datetime>>>> \o IdParts(Tail(ps))

\* Faulty variant: the id is the number of members
GroupIdOfSize(group, avgX) ==
    [keys |-> <<Len(group.purchases)>>, anchor |-> Rat(0, 1)]

GroupId(group, avgX) ==
    IF group.purchases = <<>>
    THEN [keys |-> <<>>, anchor |-> avgX]
    ELSE [keys |-> IdParts(group.purchases), anchor |-> Rat(0, 1)]

\* Faulty variant: no Math.max: the left edge is not enforced
TooltipLeftNoMax(avgX, area) ==
    RMin(avgX, Rat(area.right - LabelMarginX, 1))

TooltipLeft(avgX, area) ==
    RMin(RMax(avgX, Rat(area.left + LabelMarginX, 1)),
         Rat(area.right - LabelMarginX, 1))

\* Faulty variant: no Math.max: the top edge is not enforced
TooltipTopNoMax(yMin, estimatedHeight, area) ==
    Min2(yMin - estimatedHeight, area.bottom - estimatedHeight - LabelMarginY)

\* Faulty variant: topBase is yMin itself, the label starts at the member
TooltipTopAtMember(yMin, estimatedHeight, area) ==
    Min2(Max2(yMin, area.top + LabelMarginY),
         area.bottom - estimatedHeight - LabelMarginY)

TooltipTop(yMin, estimatedHeight, area) ==
    Min2(Max2(yMin - estimatedHeight, area.top + LabelMarginY),
         area.bottom - estimatedHeight - LabelMarginY)

ToTooltip(group, area) ==
    LET avgX == Rat(group.xSum, group.count)
        avgY == Rat(group.ySum, group.count)
        estimatedHeight == EstimatedHeight(Len(group.purchases))
    IN  [id |-> GroupId(group, avgX),
         anchorX |-> avgX,
         anchorY |-> avgY,
         tooltipLeft |-> TooltipLeft(avgX, area),
         tooltipTop |-> TooltipTop(group.yMin, estimatedHeight, area),
         purchases |-> group.purchases]

\* Faulty variant: positions.sort is left out
UnsortedPositions(ps, series, c) == Positions(ps, series, c)

SortedPositions(ps, series, c) == SortByX(Positions(ps, series, c))

\* grouped.map(group => ...)
RECURSIVE MapTooltips(_, _)
MapTooltips(grouped, area) ==
    IF grouped = <<>> THEN <<>>
    ELSE <<ToTooltip(Head(grouped), area)>> \o MapTooltips(Tail(grouped), area)

TooltipsOf(positions, area) ==
    IF Len(positions) = 0 THEN <<>>
    ELSE MapTooltips(Sweep(positions, <<>>, thresholdPx), area)

\* The value recomputeTooltips hands to setTooltipGroups
ComputeTooltips(ps, series, c) ==
    IF ~c.mounted THEN <<>>
    ELSE IF Len(ps) = 0 \/ Len(series) = 0 THEN <<>>
    ELSE TooltipsOf(SortedPositions(ps, series, c), c.area)

--------------------------------------------------------------------------
(* The margin table.  A purchase value or a profit is null or a number,    *)
(* kept as an exact fraction: [k |-> "num", v |-> [n, d]].                 *)

RSub(a, b) == Rat(a.n * b.d - b.n * a.d, a.d * b.d)
REq(a, b) == a.n * b.d = b.n * a.d

Price(r) == [k |-> "num", v |-> r]
NoPrice == [k |-> "null", v |-> Rat(0, 1)]

\* The quantity tiers of a resource; the rows of the first two tiers are
\* modelled, every row being computed from its own rule and median alone
QTY_LIST == <<"x1", "x10">>
Tiers == {QTY_LIST[i] : i \in 1..Len(QTY_LIST)}

\* The rule a loaded selection holds for a tier: s = it.settings?.[qty]
RawSetting(present, type, value, active) ==
    [present |-> present, margin_type |-> type, margin_value |-> value,
     active |-> active]

\* marginType, value and active of the rule s
SettingOf(s) ==
    [marginType |-> IF s.present /\ s.margin_type = "absolute"
                    THEN "absolute" ELSE "percent",
     value |-> IF s.present /\ s.margin_value.k = "num" THEN s.margin_value.v ELSE 0,
     active |-> IF s.present /\ s.active \in {"true", "false"}
                THEN s.active = "true" ELSE TRUE]

\* The settings map built from the loaded selection
SettingsOf(sel) ==
    IF sel = <<>> THEN <<>> ELSE [qty \in Tiers |-> SettingOf(sel[1].settings[qty])]

DefaultSetting == [marginType |-> "percent", value |-> 0, active |-> TRUE]

\* cfg = settings[key] || { marginType: "percent", value: 0, active: true }
CfgOf(map, key) == IF key \in DOMAIN map THEN map[key] ELSE DefaultSetting

\* median = medianMap[it.slug_fr]?.[qty] ?? null
MedianOf(map, key) == IF key \in DOMAIN map THEN map[key] ELSE Null

\* Faulty variant: a price below zero is shown as zero
PercentPriceClamped(median, value) ==
    IF median * (100 - value) < 0 THEN Rat(0, 100) ELSE Rat(median * (100 - value), 100)

\* median * (1 - cfg.value / 100)
PercentPrice(median, value) == Rat(median * (100 - value), 100)

\* Faulty variant: a missing median counts as 0
SuggestedPriceOfZero(cfg, median) ==
    IF cfg.marginType = "percent"
    THEN Price(PercentPrice(IF median # Null THEN median.v ELSE 0, cfg.value))
    ELSE Price(Rat(cfg.value, 1))

\* purchase: the purchase value of a row
SuggestedPrice(cfg, median) ==
    IF cfg.marginType = "percent"
    THEN IF median # Null THEN Price(PercentPrice(median.v, cfg.value)) ELSE NoPrice
    ELSE Price(Rat(cfg.value, 1))

\* Faulty variant: without a median or a purchase value the profit is 0
ExpectedProfitOrZero(median, purchase) ==
    IF median # Null /\ purchase # NoPrice
    THEN Price(RSub(Rat(median.v, 1), purchase.v))
    ELSE Price(Rat(0, 1))

\* profit: the estimated profit of a row
ExpectedProfit(median, purchase) ==
    IF median # Null /\ purchase # NoPrice
    THEN Price(RSub(Rat(median.v, 1), purchase.v))
    ELSE NoPrice

\* One row of the table
RowOf(cfg, median) ==
    [purchase |-> SuggestedPrice(cfg, median),
     profit |-> ExpectedProfit(median, SuggestedPrice(cfg, median))]

\* The rows the render shows: none while items is empty
Render(its, cfgs, medians) ==
    IF its = <<>> THEN <<>>
    ELSE [qty \in Tiers |-> RowOf(CfgOf(cfgs, qty), MedianOf(medians, qty))]

--------------------------------------------------------------------------
(* Bounds and input sets *)

MaxPoints == 3
MaxPurchases == 3
MaxSales == 3

RECURSIVE SeqsUpTo(_, _)
SeqsUpTo(S, n) ==
    IF n = 0 THEN {<<>>}
    ELSE LET shorter == SeqsUpTo(S, n - 1)
         IN  shorter \cup {Append(q, e) : q \in {r \in shorter : Len(r) = n - 1}, e \in S}

Injective(q) == \A i, j \in 1..Len(q) : i # j => q[i] # q[j]

Point(t, amount) == [t |-> t, amount |-> amount]

Purchase(id, datetime, totalPrice, saleDatetime, saleTotalPrice) ==
    [id |-> id, datetime |-> datetime, totalPrice |-> totalPrice,
     saleDatetime |-> saleDatetime, saleTotalPrice |-> saleTotalPrice]

\* Wealth samples of the store: instants 0, 100 and 200, one sample that
\* does not parse and one whose amount is not a number.
StorePoints ==
    {Point(NumStr(0), Num(1000)), Point(IsoStr(100), Num(1200)),
     Point(IsoStr(200), Num(1500)), Point(JunkStr, Num(1000)),
     Point(IsoStr(100), NaN)}

StorePointLists == SeqsUpTo(StorePoints, MaxPoints)

Queries == {-10, 0, 40, 50, 60, 100, 149, 150, 200, 250}

\* Purchases on the chart: instants 0, 5 (twice), 10 and one datetime that
\* does not parse.
ChartPurchases ==
    {Purchase(1, NumStr(0), Num(500), NoStr, Undefined),
     Purchase(2, IsoStr(5), Num(500), NoStr, Undefined),
     Purchase(3, IsoStr(10), Num(500), NoStr, Undefined),
     Purchase(4, IsoStr(5), Num(500), NoStr, Undefined),
     Purchase(5, JunkStr, Num(500), NoStr, Undefined)}

ChartPurchaseLists ==
    {q \in SeqsUpTo(ChartPurchases, MaxPurchases) : Injective(q)}

ChartPointLists ==
    {<<>>,
     <<Point(IsoStr(10), Num(1)), Point(NumStr(0), Num(3))>>,
     <<Point(IsoStr(5), Num(2))>>}

Areas ==
    {[left |-> 90, right |-> 300, top |-> 10, bottom |-> 370],
     [left |-> 150, right |-> 170, top |-> 100, bottom |-> 150],
     [left |-> 0, right |-> 120, top |-> 200, bottom |-> 300]}

ViewRanges ==
    {<<Undefined, Undefined>>, <<Num(0), Num(5)>>, <<Num(5), NaN>>}

Unmounted ==
    [mounted |-> FALSE, xMin |-> Undefined, xMax |-> Undefined,
     xOk |-> FALSE, x0 |-> 0, xm |-> 1, yOk |-> FALSE, y0 |-> 0, ym |-> 1,
     area |-> [left |-> 0, right |-> 0, top |-> 0, bottom |-> 0]]

Chart(range, xOk, yOk, xm, area) ==
    [mounted |-> TRUE, xMin |-> range[1], xMax |-> range[2],
     xOk |-> xOk, x0 |-> 100, xm |-> xm, yOk |-> yOk, y0 |-> 350, ym |-> 100,
     area |-> area]

Charts ==
    {Chart(r, TRUE, TRUE, xm, a) : r \in ViewRanges, xm \in {1, 10, 20}, a \in Areas}
    \cup {Chart(<<Undefined, Undefined>>, FALSE, TRUE, 1,
                [left |-> 90, right |-> 300, top |-> 10, bottom |-> 370]),
          Chart(<<Undefined, Undefined>>, TRUE, FALSE, 1,
                [left |-> 90, right |-> 300, top |-> 10, bottom |-> 370])}

\* Purchases with a sale: every combination of the fields reconcile reads.
SalePurchases ==
    {Purchase(1, d, tp, sd, stp) :
        d \in {IsoStr(10), JunkStr, NoStr},
        tp \in {Num(500), Null, Undefined, NaN},
        sd \in {IsoStr(5), IsoStr(10), IsoStr(20), JunkStr, NoStr},
        stp \in {Num(700), Num(300), Undefined, NaN, PosInf}}

LedgerPurchases ==
    {Purchase(1, IsoStr(10), Num(500), IsoStr(20), Num(700)),
     Purchase(2, IsoStr(10), Num(500), IsoStr(10), Num(300)),
     Purchase(3, IsoStr(10), Num(500), IsoStr(5), Num(700)),
     Purchase(4, IsoStr(10), Num(100), NoStr, Undefined),
     Purchase(5, JunkStr, Undefined, IsoStr(5), Num(700)),
     Purchase(6, IsoStr(10), Num(200), JunkStr, Num(250))}

SaleLists ==
    {<<p>> : p \in SalePurchases} \cup SeqsUpTo(LedgerPurchases, MaxSales)

\* Wealth samples for the normalizer: numbers below and above 1e12 in
\* magnitude, a number beyond the range of Date, Infinity, a string of
\* blanks, a bare date, a padded date-time with a blank and no zone, a
\* date-time with an offset, and a string that is no date.
TimestampPoints ==
    {Point(NumStr(-2000), Num(1000)), Point(NumStr(-5), Num(1000)),
     Point(NumStr(999), Num(1000)), Point(NumStr(1000), Num(1000)),
     Point(NumStr(9000000), Num(1000)),
     Point(Str(FALSE, "inf", 1, "", "", 0), Num(1000)),
     Point(Str(TRUE, "empty", 0, "", "", 0), Num(1000)),
     Point(Str(FALSE, "date", 100, "", "", 0), Num(1000)),
     Point(Str(TRUE, "dt", 100, " ", "", 0), Num(1000)),
     Point(Str(FALSE, "dt", 100, "T", "off", 3), Num(1000)),
     Point(JunkStr, Num(1000))}

TimestampPointLists == SeqsUpTo(TimestampPoints, MaxPoints)

\* Samples and purchases whose timestamps fail: a string that is no date,
\* a string of blanks, Infinity, no string at all
BlankStr == Str(TRUE, "empty", 0, "", "", 0)
InfinityStr == Str(FALSE, "inf", 1, "", "", 0)

FaultPointLists ==
    {<<>>,
     <<Point(IsoStr(5), Num(2)), Point(JunkStr, Num(9)), Point(BlankStr, Num(9)),
       Point(InfinityStr, Num(9))>>,
     <<Point(NumStr(0), Num(3)), Point(IsoStr(10), NaN)>>}

FaultPurchases ==
    {Purchase(1, IsoStr(5), Num(500), IsoStr(10), Num(700)),
     Purchase(2, JunkStr, Num(500), IsoStr(5), Num(700)),
     Purchase(3, BlankStr, Num(500), IsoStr(5), Num(300)),
     Purchase(4, IsoStr(5), Num(500), JunkStr, Num(700)),
     Purchase(5, NoStr, Num(500), InfinityStr, Num(700))}

FaultPurchaseLists ==
    {q \in SeqsUpTo(FaultPurchases, MaxPurchases) : Injective(q)}

\* Purchase lists that are not in the order of their instants
FramePurchaseLists ==
    {<<>>,
     <<Purchase(3, IsoStr(10), Num(500), IsoStr(20), Num(700)),
       Purchase(1, NumStr(0), Num(500), NoStr, Undefined)>>,
     <<Purchase(2, IsoStr(5), Num(500), NoStr, Undefined),
       Purchase(5, JunkStr, Num(500), NoStr, Undefined),
       Purchase(4, IsoStr(5), Num(500), IsoStr(5), Num(300))>>}

\* The margin values and medians of the margin table
MarginValues == {-50, 0, 10, 150, 200}
MedianValues == {Null, Num(0), Num(1000)}

\* The rules a loaded selection may hold for a tier
RawSettings ==
    { RawSetting(FALSE, "none", Null, "none"),
      RawSetting(TRUE, "absolute", Num(150), "false"),
      RawSetting(TRUE, "percent", Num(10), "true"),
      RawSetting(TRUE, "none", Null, "none") }

\* What loadSelection() may answer: nothing selected, or one resource
Selections ==
    {<<>>} \cup {<<[id |-> 1, settings |-> st]>> : st \in [Tiers -> RawSettings]}

--------------------------------------------------------------------------
(* State and operations of the page *)

\* hideTooltipTimeout.current === null
NoTimer == 0

NoResponse == [pending |-> FALSE, points |-> <<>>, purchases |-> <<>>]
Response(pts, ps) == [pending |-> TRUE, points |-> pts, purchases |-> ps]

\* No debounce timer
NoQuery == "none"

\* No onSave in progress
Idle == [phase |-> "idle", valid |-> "null", ok |-> TRUE]

\* ResourcePicker after its first render: query "", the effect has returned
\* early
PickerMounted ==
    /\ pickerQuery = ""
    /\ results = <<>>
    /\ loading = FALSE
    /\ aborted = FALSE
    /\ debounce = NoQuery
    /\ searches = {}

\* makeUIWebSocket has returned: connect() has constructed the first socket
SocketMade ==
    /\ sockets = <<"connecting">>
    /\ stopped = FALSE
    /\ reconnects = 0
    /\ connects = 1

\* ConfigEditor after its first render, the text empty
EditorMounted ==
    /\ valid = "null"
    /\ yamlOk = TRUE
    /\ saving = Idle
    /\ answers = {}
    /\ sent = {}

InitWidgets == PickerMounted /\ SocketMade /\ EditorMounted

\* The state after the first render: nothing loaded, the chart not yet
\* mounted, the first animation frame requested, the first fetch in flight
\* with the answer `r`.
InitWith(r) ==
    /\ points = <<>>
    /\ kamasSeries = <<>>
    /\ currentFortune = Null
    /\ purchases = <<>>
    /\ totalProfit = 0
    /\ chart = Unmounted
    /\ tooltipGroups = <<>>
    /\ rafPending = TRUE
    /\ response = r
    /\ query = Null
    /\ closest = Null
    /\ items = <<>>
    /\ settings = <<>>
    /\ medianMap = <<>>
    /\ rows = <<>>
    /\ selectionPending = TRUE
    /\ mediansPending = FALSE
    /\ hoveredTooltipId = Null
    /\ hideTooltipTimeout = NoTimer
    /\ timers = {}
    /\ timeRange = "1w"
    /\ issued = 1
    /\ superseded = {}
    /\ InitWidgets

\* The raw samples of the entries of a series
RECURSIVE RawOf(_)
RawOf(series) ==
    IF series = <<>> THEN <<>>
    ELSE <<Point(Head(series).rawTimestamp, Num(Head(series).y))>> \o RawOf(Tail(series))

\* Faulty variant: the filter and the sort work on the points themselves
LoadedSortsPoints(pts, ps) ==
    /\ points' = RawOf(BuildSeries(pts))
    /\ purchases' = ps
    /\ kamasSeries' = BuildSeries(pts)
    /\ currentFortune' = LatestValue(BuildSeries(pts))
    /\ totalProfit' = TotalProfit(ps)
    /\ rafPending' = TRUE

\* Faulty variant: the effect that requests the frame does not run again
LoadedWithoutFrame(pts, ps) ==
    /\ points' = pts
    /\ purchases' = ps
    /\ kamasSeries' = BuildSeries(pts)
    /\ currentFortune' = LatestValue(BuildSeries(pts))
    /\ totalProfit' = TotalProfit(ps)
    /\ rafPending' = rafPending

\* The values the render derives from the new points and purchases
Loaded(pts, ps) ==
    /\ points' = pts
    /\ purchases' = ps
    /\ kamasSeries' = BuildSeries(pts)
    /\ currentFortune' = LatestValue(BuildSeries(pts))
    /\ totalProfit' = TotalProfit(ps)
    /\ rafPending' = TRUE

\* The fetch resolves: setPoints, setPurchases, and the render that follows.
\* findClosestAmount is a new callback over the new series: what the old one
\* returned is gone.
FetchResolved ==
    /\ response.pending
    /\ Loaded(response.points, response.purchases)
    /\ response' = NoResponse
    /\ query' = Null
    /\ closest' = Null
    /\ UNCHANGED <<chart, tooltipGroups>>
    /\ UNCHANGED sideVars

\* The list q with the records at i and j exchanged
Swap(q, i, j) ==
    SubSeq(q, 1, i - 1) \o <<q[j]>> \o SubSeq(q, i + 1, j - 1) \o <<q[i]>>
    \o SubSeq(q, j + 1, Len(q))

\* A later fetch answers with the same records in another order
RefetchResolved ==
    \E i, j \in 1..Len(purchases) :
        /\ ~response.pending
        /\ i < j
        /\ Loaded(points, Swap(purchases, i, j))
        /\ UNCHANGED <<chart, tooltipGroups, response, query, closest>>
        /\ UNCHANGED sideVars

\* Faulty variant: the new clusters are added to the stored ones
recomputeTooltipsKeepsOld ==
    tooltipGroups' = tooltipGroups \o ComputeTooltips(purchases, kamasSeries, chart)

\* recomputeTooltips
recomputeTooltips ==
    tooltipGroups' = ComputeTooltips(purchases, kamasSeries, chart)

\* The animation frame requested by the effect fires
RafFires ==
    /\ rafPending
    /\ recomputeTooltips
    /\ rafPending' = FALSE
    /\ UNCHANGED <<points, kamasSeries, currentFortune, purchases, totalProfit,
                   chart, response, query, closest>>
    /\ UNCHANGED sideVars

\* window "resize"
WindowResize ==
    /\ recomputeTooltips
    /\ UNCHANGED <<points, kamasSeries, currentFortune, purchases, totalProfit,
                   chart, rafPending, response, query, closest>>
    /\ UNCHANGED sideVars

\* The chart has laid itself out as c and drawn: animation.onComplete
ChartRendered ==
    \E c \in Charts :
        /\ chart' = c
        /\ tooltipGroups' = ComputeTooltips(purchases, kamasSeries, c)
        /\ UNCHANGED <<points, kamasSeries, currentFortune, purchases,
                       totalProfit, rafPending, response, query, closest>>
        /\ UNCHANGED sideVars

\* A call findClosestAmount(timestamp)
Query ==
    \E timestamp \in Queries :
        /\ query' = Num(timestamp)
        /\ closest' = findClosestAmount(kamasSeries, timestamp)
        /\ UNCHANGED <<points, kamasSeries, currentFortune, purchases,
                       totalProfit, chart, tooltipGroups, rafPending, response>>
        /\ UNCHANGED sideVars

\* The keys of TIME_RANGES
TimeRangeKeys == {"1d", "3d", "1w", "1m", "all"}

\* The fetches one run may start
MaxRequests == 3

\* What the server answers to the n-th fetch: one sample and one purchase
\* that tell the fetch they answer
AnswerOf(n) ==
    [points |-> <<Point(IsoStr(0), Num(n))>>,
     purchases |-> <<Purchase(n, IsoStr(0), Num(500), NoStr, Undefined)>>]

\* Faulty variant: the cleanup of the effect does not set cancelled
CleanedUpStillLive(r, n) ==
    IF r.pending
    THEN {[serial |-> n, cancelled |-> FALSE,
           points |-> r.points, purchases |-> r.purchases]}
    ELSE {}

\* The cleanup of the effect, cancelled = true: the fetch of the effect, if
\* it is still in flight, will answer to a cancelled closure
CleanedUp(r, n) ==
    IF r.pending
    THEN {[serial |-> n, cancelled |-> TRUE,
           points |-> r.points, purchases |-> r.purchases]}
    ELSE {}

\* setTimeRange(key) of a range button, and the effect on timeRange: the
\* cleanup of the last run, then fetchData() for the new range
SelectRange ==
    \E key \in TimeRangeKeys :
        /\ key # timeRange
        /\ issued < MaxRequests
        /\ timeRange' = key
        /\ superseded' = superseded \cup CleanedUp(response, issued)
        /\ issued' = issued + 1
        /\ response' = Response(AnswerOf(issued + 1).points,
                                AnswerOf(issued + 1).purchases)
        /\ UNCHANGED <<points, kamasSeries, currentFortune, purchases,
                       totalProfit, chart, tooltipGroups, rafPending, query,
                       closest>>
        /\ UNCHANGED besideRange

\* The fetch of the current effect fails: the catch logs and stores nothing
FetchFailed ==
    /\ response.pending
    /\ response' = NoResponse
    /\ UNCHANGED <<points, kamasSeries, currentFortune, purchases, totalProfit,
                   chart, tooltipGroups, rafPending, query, closest>>
    /\ UNCHANGED sideVars

\* A fetch of an earlier run of the effect answers: if (!cancelled)
SupersededAnswered ==
    \E s \in superseded :
        /\ superseded' = superseded \ {s}
        /\ IF s.cancelled
           THEN UNCHANGED <<points, kamasSeries, currentFortune, purchases,
                            totalProfit, rafPending, query, closest>>
           ELSE /\ Loaded(s.points, s.purchases)
                /\ query' = Null
                /\ closest' = Null
        /\ UNCHANGED <<chart, tooltipGroups, response>>
        /\ UNCHANGED <<timeRange, issued>>
        /\ UNCHANGED besideRange

\* The labels the render shows: those of the clusters with isActive
ShownLabels(groups, hovered) ==
    SelectSeq(groups, LAMBDA group : hovered = group.id)

\* The handles window.setTimeout may return: one no pending timer has
MaxHandles == 2
FreeHandles(pending) == {h \in 1..MaxHandles : \A t \in pending : t.handle # h}
NewHandle(pending) == CHOOSE h \in FreeHandles(pending) : \A k \in FreeHandles(pending) : h <= k

\* clearHideTooltip: the timers left pending
ClearedTimers ==
    IF hideTooltipTimeout # NoTimer
    THEN {t \in timers : t.handle # hideTooltipTimeout}
    ELSE timers

showTooltip(id) ==
    /\ timers' = ClearedTimers
    /\ hideTooltipTimeout' = NoTimer
    /\ hoveredTooltipId' = id
    /\ UNCHANGED besideHover

\* Faulty variant: the pending timer is not cleared first
scheduleHideTooltipKeepsTimer(id) ==
    /\ FreeHandles(timers) # {}
    /\ timers' = timers \cup {[handle |-> NewHandle(timers), id |-> id]}
    /\ hideTooltipTimeout' = NewHandle(timers)
    /\ UNCHANGED hoveredTooltipId
    /\ UNCHANGED besideHover

scheduleHideTooltip(id) ==
    /\ FreeHandles(ClearedTimers) # {}
    /\ timers' = ClearedTimers \cup {[handle |-> NewHandle(ClearedTimers), id |-> id]}
    /\ hideTooltipTimeout' = NewHandle(ClearedTimers)
    /\ UNCHANGED hoveredTooltipId
    /\ UNCHANGED besideHover

\* onMouseEnter, onFocus of the button of a cluster or of its label
PointerEnters ==
    \E g \in 1..Len(tooltipGroups) : showTooltip(tooltipGroups[g].id)

\* onMouseLeave, onBlur of the button of a cluster or of its label
PointerLeaves ==
    \E g \in 1..Len(tooltipGroups) : scheduleHideTooltip(tooltipGroups[g].id)

\* The callback of the timer t, 120 ms after it was set
HideTimerFired(t) ==
    /\ timers' = timers \ {t}
    /\ hoveredTooltipId' = IF hoveredTooltipId = t.id THEN Null ELSE hoveredTooltipId
    /\ hideTooltipTimeout' = NoTimer
    /\ UNCHANGED besideHover

HideTimerFires == \E t \in timers : HideTimerFired(t)

\* What the user may have typed in the search box
PickerQueries == {"", " ", "a", "ab", "abc"}

\* !query.trim()
IsBlank(q) == q \in {"", " "}

\* What searchItems answers for a query
ItemsOf(q) == <<q>>

\* The input's onChange, setQuery(q), and the effect on query: the cleanup of
\* the last run if it had returned one (aborted = true, clearTimeout), then
\* aborted = false and either the early return of a blank query or a new
\* debounce timer
SetQuery ==
    \E q \in PickerQueries :
        /\ q # pickerQuery
        /\ pickerQuery' = q
        /\ aborted' = FALSE
        /\ IF IsBlank(q)
           THEN /\ results' = <<>>
                /\ loading' = FALSE
                /\ debounce' = NoQuery
           ELSE /\ debounce' = q
                /\ UNCHANGED <<results, loading>>
        /\ UNCHANGED searches
        /\ UNCHANGED besidePicker

\* The debounce timer fires: setLoading(true), searchItems(query, limit)
DebounceFires ==
    /\ debounce # NoQuery
    /\ loading' = TRUE
    /\ searches' = searches \cup {debounce}
    /\ debounce' = NoQuery
    /\ UNCHANGED <<pickerQuery, results, aborted>>
    /\ UNCHANGED besidePicker

\* searchItems answers, with the items or with an error
SearchAnswered ==
    \E q \in searches, ok \in BOOLEAN :
        /\ searches' = searches \ {q}
        /\ IF aborted
           THEN UNCHANGED <<results, loading>>
           ELSE /\ results' = IF ok THEN ItemsOf(q) ELSE <<>>
                /\ loading' = FALSE
        /\ UNCHANGED <<pickerQuery, aborted, debounce>>
        /\ UNCHANGED besidePicker

\* The WebSockets one handle may construct
MaxSockets == 20

\* ws.onopen
SocketOpens ==
    \E i \in 1..Len(sockets) :
        /\ sockets[i] = "connecting"
        /\ sockets' = [sockets EXCEPT ![i] = "open"]
        /\ UNCHANGED <<stopped, reconnects, connects>>
        /\ UNCHANGED besideSocket

\* ws.onclose, of a socket the server or the network has closed or of one
\* closed by ws.close(): if (!stopped) setTimeout(connect, reconnectDelayMs)
SocketCloses ==
    \E i \in 1..Len(sockets) :
        /\ sockets[i] # "closed"
        /\ sockets' = [sockets EXCEPT ![i] = "closed"]
        /\ reconnects' = IF stopped THEN reconnects ELSE reconnects + 1
        /\ UNCHANGED <<stopped, connects>>
        /\ UNCHANGED besideSocket

\* Faulty variant: connect does not test stopped
connectWhateverStopped ==
    /\ connects' = connects + 1
    /\ sockets' = Append(sockets, "connecting")

\* connect
connect ==
    /\ connects' = connects + 1
    /\ sockets' = IF stopped THEN sockets ELSE Append(sockets, "connecting")

\* A setTimeout(connect, reconnectDelayMs) timer fires
ReconnectFires ==
    /\ reconnects > 0
    /\ stopped \/ Len(sockets) < MaxSockets
    /\ reconnects' = reconnects - 1
    /\ connect
    /\ UNCHANGED stopped
    /\ UNCHANGED besideSocket

\* close() of the handle: stopped = true; ws?.close()
HandleClose ==
    /\ ~stopped
    /\ stopped' = TRUE
    /\ sockets' = IF sockets[Len(sockets)] \in {"connecting", "open"}
                  THEN [sockets EXCEPT ![Len(sockets)] = "closing"]
                  ELSE sockets
    /\ UNCHANGED <<reconnects, connects>>
    /\ UNCHANGED besideSocket

\* useState valid, from the ok of a config_valid message
ValidOf(ok) == IF ok THEN "true" ELSE "false"

\* The textarea's onChange: the text becomes one the agent accepts, or one it
\* rejects
EditText ==
    /\ yamlOk' = ~yamlOk
    /\ UNCHANGED <<valid, saving, answers, sent>>
    /\ UNCHANGED besideEditor

\* A "config" message: setYamlText(content), setValid(null)
ConfigReceived ==
    \E ok \in BOOLEAN :
        /\ yamlOk' = ok
        /\ valid' = "null"
        /\ UNCHANGED <<saving, answers, sent>>
        /\ UNCHANGED besideEditor

\* onValidate: validate_config is sent, the agent will answer config_valid
onValidate ==
    /\ saving.phase = "idle"
    /\ answers' = answers \cup {yamlOk}
    /\ UNCHANGED <<valid, yamlOk, saving, sent>>
    /\ UNCHANGED besideEditor

\* onSave up to its await: validate_config is sent for yamlText; the
\* function keeps the yamlText and the valid of the render it was made in
onSave ==
    /\ saving.phase = "idle"
    /\ saving' = [phase |-> "posting", valid |-> valid, ok |-> yamlOk]
    /\ answers' = answers \cup {yamlOk}
    /\ UNCHANGED <<valid, yamlOk, sent>>
    /\ UNCHANGED besideEditor

\* await cmdValidateConfig returns, and the 150 ms timer is set, or throws
ValidatePosted ==
    \E posted \in BOOLEAN :
        /\ saving.phase = "posting"
        /\ saving' = IF posted THEN [saving EXCEPT !.phase = "timer"] ELSE Idle
        /\ UNCHANGED <<valid, yamlOk, answers, sent>>
        /\ UNCHANGED besideEditor

\* A "config_valid" message: setValid(ok)
ValidAnswered ==
    \E ok \in answers :
        /\ answers' = answers \ {ok}
        /\ valid' = ValidOf(ok)
        /\ UNCHANGED <<yamlOk, saving, sent>>
        /\ UNCHANGED besideEditor

\* The 150 ms timer of onSave: the alert on valid === false, else set_config
SaveTimerFires ==
    /\ saving.phase = "timer"
    /\ sent' = IF saving.valid = "false" THEN sent ELSE sent \cup {saving.ok}
    /\ saving' = Idle
    /\ UNCHANGED <<valid, yamlOk, answers>>
    /\ UNCHANGED besideEditor

\* loadSelection() answers: setItems, setSettings; the effect on items
\* empties medianMap for an empty selection and asks for the medians
\* otherwise
SelectionLoaded ==
    \E sel \in Selections :
        /\ selectionPending
        /\ selectionPending' = FALSE
        /\ items' = sel
        /\ settings' = SettingsOf(sel)
        /\ medianMap' = IF sel = <<>> THEN <<>> ELSE medianMap
        /\ mediansPending' = (sel # <<>>)
        /\ rows' = Render(sel, SettingsOf(sel), IF sel = <<>> THEN <<>> ELSE medianMap)
        /\ UNCHANGED besideMargin

\* loadSelection() fails: the error is logged
SelectionFailed ==
    /\ selectionPending
    /\ selectionPending' = FALSE
    /\ UNCHANGED <<items, settings, medianMap, rows, mediansPending>>
    /\ UNCHANGED besideMargin

\* Every getHdvPriceStat call has answered, with a value, null or an error
MediansLoaded ==
    \E qmap \in [Tiers -> MedianValues] :
        /\ mediansPending
        /\ mediansPending' = FALSE
        /\ medianMap' = qmap
        /\ rows' = Render(items, settings, qmap)
        /\ UNCHANGED <<items, settings, selectionPending>>
        /\ UNCHANGED besideMargin

\* updateSetting(key, patch), cfg being settings[key] with the patch applied
updateSetting(key, cfg) ==
    /\ settings' = [settings EXCEPT ![key] = cfg]
    /\ rows' = Render(items, [settings EXCEPT ![key] = cfg], medianMap)
    /\ UNCHANGED <<items, medianMap, selectionPending, mediansPending>>
    /\ UNCHANGED besideMargin

\* The select of an active row changes
SetMarginType ==
    \E key \in DOMAIN rows, type \in {"percent", "absolute"} :
        /\ settings[key].active
        /\ updateSetting(key, [settings[key] EXCEPT !.marginType = type])

\* The number input of an active row changes
SetMarginValue ==
    \E key \in DOMAIN rows, value \in MarginValues :
        /\ settings[key].active
        /\ updateSetting(key, [settings[key] EXCEPT !.value = value])

\* The checkbox of a row changes
SetActive ==
    \E key \in DOMAIN rows, checked \in BOOLEAN :
        updateSetting(key, [settings[key] EXCEPT !.active = checked])

--------------------------------------------------------------------------
(* Specifications *)

\* The wealth series and its lookups
InitStore == \E pts \in StorePointLists : InitWith(Response(pts, <<>>))
NextStore == FetchResolved \/ Query
SpecStore == InitStore /\ [][NextStore]_vars

\* The chart, the purchases on it and their labels
InitChart ==
    \E pts \in ChartPointLists, ps \in ChartPurchaseLists :
        InitWith(Response(pts, ps))
NextChart ==
    FetchResolved \/ RefetchResolved \/ RafFires \/ WindowResize \/ ChartRendered
SpecChart == InitChart /\ [][NextChart]_vars

\* The purchases and their sales
InitSales == \E ps \in SaleLists : InitWith(Response(<<>>, ps))
NextSales == FetchResolved \/ RefetchResolved
SpecSales == InitSales /\ [][NextSales]_vars

\* The timestamp normalizer, through the series built from the samples
InitParse == \E pts \in TimestampPointLists : InitWith(Response(pts, <<>>))
NextParse == FetchResolved
SpecParse == InitParse /\ [][NextParse]_vars

\* Timestamps that fail, and what the series, the clusters and the
\* reconciliation make of them
InitFaults ==
    \E pts \in FaultPointLists, ps \in FaultPurchaseLists :
        InitWith(Response(pts, ps))
NextFaults == FetchResolved \/ RafFires \/ WindowResize \/ ChartRendered
SpecFaults == InitFaults /\ [][NextFaults]_vars

\* Lookups and passes beside the inputs they read
InitFrame ==
    \E pts \in ChartPointLists, ps \in FramePurchaseLists :
        InitWith(Response(pts, ps))
NextFrame ==
    FetchResolved \/ RefetchResolved \/ Query \/ RafFires \/ WindowResize
        \/ ChartRendered
SpecFrame == InitFrame /\ [][NextFrame]_vars

\* The passes and what triggers them, around the one fetch of a time
\* range: the inputs change when it answers and not again; a requested
\* animation frame that is not cancelled does fire
InitPass == InitFrame
NextPass == FetchResolved \/ RafFires \/ WindowResize \/ ChartRendered
\* The step in which the due frame runs: RafFires, told by its effect on
\* rafPending alone
FrameRuns == rafPending /\ rafPending' = FALSE
SpecPass == InitPass /\ [][NextPass]_vars /\ WF_rafPending(FrameRuns)

\* The labels and the pointer: one fetch of two purchases, which the chart
\* shows as one cluster or as two
HoverPurchases ==
    <<Purchase(1, NumStr(0), Num(500), NoStr, Undefined),
      Purchase(3, IsoStr(10), Num(500), NoStr, Undefined)>>
HoverPoints == <<Point(IsoStr(10), Num(1)), Point(NumStr(0), Num(3))>>

InitHover == InitWith(Response(HoverPoints, HoverPurchases))
NextHover ==
    FetchResolved \/ RafFires \/ ChartRendered \/ PointerEnters \/ PointerLeaves
        \/ HideTimerFires
\* The step in which a pending timer is run or cleared, told by its effect
\* on timers alone
TimerRuns == timers # {} /\ timers' = {}
SpecHover == InitHover /\ [][NextHover]_vars /\ WF_timers(TimerRuns)

\* The time range buttons and the fetches they start
InitRange == InitWith(Response(AnswerOf(1).points, AnswerOf(1).purchases))
NextRange ==
    SelectRange \/ FetchResolved \/ FetchFailed \/ SupersededAnswered \/ RafFires
SpecRange == InitRange /\ [][NextRange]_vars

\* The search box of ResourcePicker
InitPicker == InitWith(NoResponse)
NextPicker == SetQuery \/ DebounceFires \/ SearchAnswered
SpecPicker == InitPicker /\ [][NextPicker]_vars

\* The reconnecting WebSocket
InitSocket == InitWith(NoResponse)
NextSocket == SocketOpens \/ SocketCloses \/ ReconnectFires \/ HandleClose
SpecSocket == InitSocket /\ [][NextSocket]_vars

\* The configuration editor
InitEditor == InitWith(NoResponse)
NextEditor ==
    EditText \/ ConfigReceived \/ onValidate \/ onSave \/ ValidatePosted
        \/ ValidAnswered \/ SaveTimerFires
SpecEditor == InitEditor /\ [][NextEditor]_vars

\* The margin table
InitMargin == InitWith(NoResponse)
NextMargin ==
    SelectionLoaded \/ SelectionFailed \/ MediansLoaded \/ SetMarginType
        \/ SetMarginValue \/ SetActive
SpecMargin == InitMargin /\ [][NextMargin]_vars

Init == InitStore \/ InitChart \/ InitSales \/ InitParse \/ InitFaults \/ InitFrame
           \/ InitHover \/ InitRange
           \/ InitMargin
Next == FetchResolved \/ RefetchResolved \/ RafFires \/ WindowResize
           \/ ChartRendered \/ Query \/ PointerEnters \/ PointerLeaves
           \/ HideTimerFires \/ SelectRange \/ FetchFailed
           \/ SupersededAnswered \/ NextPicker \/ NextSocket \/ NextEditor
           \/ NextMargin
Spec == Init /\ [][Next]_vars

--------------------------------------------------------------------------
(* Properties of the wealth series, checked under SpecStore *)

\* A findClosestAmount call has returned for the instant q
Queried(q) == query = Num(q)

\* The samples i and i + 1 are the one just before q and the one at/after
\* q, and q is exactly as far from the one as from the other
TieAt(q, i) ==
    /\ i \in 1..(Len(kamasSeries) - 1)
    /\ kamasSeries[i].x < q
    /\ q <= kamasSeries[i + 1].x
    /\ q - kamasSeries[i].x = kamasSeries[i + 1].x - q

\* C1 as stated: a query exactly between the sample just before it and the
\* sample at/after it returns the amount of the earlier sample.
C1_TieReturnsEarlier ==
    \A q \in Queries, i \in 1..Len(kamasSeries) :
        Queried(q) /\ TieAt(q, i) => closest = Num(kamasSeries[i].y)

\* C1 amended: a query exactly between the sample just before it and the
\* sample at/after it returns the amount of the later (at/after) sample;
\* samples (0,1000),(100,1200) and query 50 give 1200.
C1_TieReturnsLater ==
    \A q \in Queries, i \in 1..Len(kamasSeries) :
        Queried(q) /\ TieAt(q, i) => closest = Num(kamasSeries[i + 1].y)

\* The scenario of C1: samples (0,1000),(100,1200), query 50, answered 1200
C1_Witness ==
    /\ Len(kamasSeries) = 2
    /\ kamasSeries[1].x = 0 /\ kamasSeries[1].y = 1000
    /\ kamasSeries[2].x = 100 /\ kamasSeries[2].y = 1200
    /\ Queried(50) /\ TieAt(50, 1)
    /\ closest = Num(1200)

\* C2: on a non-empty series the lookup returns the amount of a sample whose
\* distance to the query is the least over all samples of the series.
C2_NearestSample ==
    \A q \in Queries :
        Queried(q) /\ Len(kamasSeries) > 0 =>
            \E i \in 1..Len(kamasSeries) :
                /\ closest = Num(kamasSeries[i].y)
                /\ \A j \in 1..Len(kamasSeries) :
                      Abs(kamasSeries[i].x - q) <= Abs(kamasSeries[j].x - q)

\* A query strictly between two adjacent samples and nearer to the earlier
\* one, in a series of three samples, answered with the earlier amount
C2_Witness ==
    /\ Len(kamasSeries) = 3
    /\ kamasSeries[1].x = 0 /\ kamasSeries[2].x = 100 /\ kamasSeries[3].x = 200
    /\ Queried(149)
    /\ closest = Num(kamasSeries[2].y)

\* The sample i of the input is valid: its instant and its amount are finite
ValidSample(i) ==
    IsFinite(parseTimestamp(points[i].t)) /\ IsFinite(points[i].amount)

\* The entry of the series that the valid sample i becomes
EntryOf(i) ==
    [x |-> parseTimestamp(points[i].t).v, y |-> points[i].amount.v,
     rawTimestamp |-> points[i].t]

\* C17: the series is in ascending order of instant and holds exactly the
\* samples of the input whose instant and amount are both finite, each as
\* many times as the input does; the current fortune is the amount of a
\* sample of the greatest instant.
C17_SortedValidSamples ==
    /\ \A k \in 1..(Len(kamasSeries) - 1) : kamasSeries[k].x <= kamasSeries[k + 1].x
    /\ Len(kamasSeries) = Cardinality({i \in 1..Len(points) : ValidSample(i)})
    /\ \A i \in 1..Len(points) :
          Cardinality({k \in 1..Len(kamasSeries) :
                          ValidSample(i) /\ kamasSeries[k] = EntryOf(i)})
            = Cardinality({j \in 1..Len(points) :
                              ValidSample(i) /\ points[j] = points[i]})
    /\ Len(kamasSeries) > 0 =>
          \E k \in 1..Len(kamasSeries) :
              /\ currentFortune = Num(kamasSeries[k].y)
              /\ \A j \in 1..Len(kamasSeries) : kamasSeries[j].x <= kamasSeries[k].x

\* Three samples given latest first, one of them without an amount: the
\* series holds the other two, earliest first, and the fortune is the
\* amount of the latest
C17_Witness ==
    /\ Len(points) = 3 /\ Len(kamasSeries) = 2
    /\ ValidSample(1) /\ ~ValidSample(2) /\ ValidSample(3)
    /\ parseTimestamp(points[1].t).v > parseTimestamp(points[3].t).v
    /\ kamasSeries[1] = EntryOf(3) /\ kamasSeries[2] = EntryOf(1)
    /\ currentFortune = points[1].amount

\* C18: with an empty series the current fortune and every lookup are null;
\* with a series of one sample or more they are amounts of samples of the
\* series.
C18_NullOnlyWhenEmpty ==
    /\ Len(kamasSeries) = 0 =>
          /\ currentFortune = Null
          /\ closest = Null
    /\ Len(kamasSeries) > 0 =>
          /\ \E k \in 1..Len(kamasSeries) : currentFortune = Num(kamasSeries[k].y)
          /\ query # Null =>
                \E k \in 1..Len(kamasSeries) : closest = Num(kamasSeries[k].y)

\* A lookup on a series emptied by the filter (samples were given, none is
\* valid) has returned null
C18_Witness ==
    /\ Len(points) > 0 /\ Len(kamasSeries) = 0
    /\ query # Null
    /\ closest = Null /\ currentFortune = Null

--------------------------------------------------------------------------
(* Properties of the clusters, checked under SpecChart *)

\* No pass is due: the stored clusters are those of a pass over the current
\* purchases, series and chart
Fresh == ~rafPending

\* The instant of a purchase, and its pixel on the current x scale
InstantOf(p) == parseTimestamp(p.datetime)
XOf(p) == XPixel(chart, InstantOf(p).v).v

\* The purchase passes every filter of a pass over the current inputs
Survives(p) ==
    /\ chart.mounted
    /\ Len(kamasSeries) > 0
    /\ IsFinite(InstantOf(p))
    /\ IsFinite(chart.xMin) => InstantOf(p).v >= chart.xMin.v
    /\ IsFinite(chart.xMax) => InstantOf(p).v <= chart.xMax.v
    /\ chart.xOk
    /\ chart.yOk

\* How many times p is a member of the group g, and of any stored cluster
RECURSIVE CountIn(_, _)
CountIn(q, p) ==
    IF q = <<>> THEN 0
    ELSE (IF Head(q) = p THEN 1 ELSE 0) + CountIn(Tail(q), p)

RECURSIVE Memberships(_, _)
Memberships(groups, p) ==
    IF groups = <<>> THEN 0
    ELSE CountIn(Head(groups).purchases, p) + Memberships(Tail(groups), p)

\* C3: after a pass every purchase that survived the filters is a member of
\* exactly one cluster, and every other purchase of none; a cluster holds
\* nothing but purchases of the list.
C3_Conservation ==
    Fresh =>
        /\ \A i \in 1..Len(purchases) :
              Memberships(tooltipGroups, purchases[i])
                  = IF Survives(purchases[i]) THEN 1 ELSE 0
        /\ \A g \in 1..Len(tooltipGroups) :
              \A k \in 1..Len(tooltipGroups[g].purchases) :
                  \E i \in 1..Len(purchases) :
                      purchases[i] = tooltipGroups[g].purchases[k]

\* A pass over three purchases: one dropped, two kept in two clusters
C3_Witness ==
    /\ Fresh
    /\ Len(purchases) = 3
    /\ Len(tooltipGroups) = 2
    /\ \E i \in 1..3 : ~Survives(purchases[i])

\* The sum of the pixels of the first n members
RECURSIVE SumX(_, _)
SumX(members, n) == IF n = 0 THEN 0 ELSE XOf(members[n]) + SumX(members, n - 1)

\* x is further than threshold from the mean pixel of the first n members
FarFromMean(members, n, x, threshold) ==
    Abs(x * n - SumX(members, n)) > threshold * n

ExamplePositions ==
    <<[purchase |-> 1, x |-> 100, y |-> 0], [purchase |-> 2, x |-> 108, y |-> 0],
      [purchase |-> 3, x |-> 200, y |-> 0]>>

\* C4: in the clusters of a pass, taken left to right, every member but the
\* first of its cluster is within thresholdPx of the mean x of the members
\* before it in the cluster, the first member of every cluster but the
\* first is further than thresholdPx from the mean x of the whole cluster
\* before, and the members are in ascending x; x = 100, 108, 200 with a
\* threshold of 15 gives the clusters {100, 108} and {200}.
C4_RunningAverage ==
    /\ Fresh =>
          /\ \A g \in 1..Len(tooltipGroups) :
                \A k \in 2..Len(tooltipGroups[g].purchases) :
                    /\ ~FarFromMean(tooltipGroups[g].purchases, k - 1,
                                    XOf(tooltipGroups[g].purchases[k]), thresholdPx)
                    /\ XOf(tooltipGroups[g].purchases[k - 1])
                          <= XOf(tooltipGroups[g].purchases[k])
          /\ \A g \in 2..Len(tooltipGroups) :
                /\ FarFromMean(tooltipGroups[g - 1].purchases,
                               Len(tooltipGroups[g - 1].purchases),
                               XOf(tooltipGroups[g].purchases[1]), thresholdPx)
                /\ XOf(tooltipGroups[g - 1].purchases[Len(tooltipGroups[g - 1].purchases)])
                      <= XOf(tooltipGroups[g].purchases[1])
    /\ LET ex == Sweep(ExamplePositions, <<>>, 15)
       IN  /\ Len(ex) = 2
           /\ ex[1].purchases = <<1, 2>>
           /\ ex[2].purchases = <<3>>

\* Pixels 100, 150, 200: the third is within thresholdPx of the second but
\* not of the mean 125 of the first two, and starts a cluster
C4_Witness ==
    /\ Fresh
    /\ Len(tooltipGroups) = 2
    /\ Len(tooltipGroups[1].purchases) = 2
    /\ XOf(tooltipGroups[1].purchases[1]) = 100
    /\ XOf(tooltipGroups[1].purchases[2]) = 150
    /\ XOf(tooltipGroups[2].purchases[1]) = 200

LabelHeightOf(group) == EstimatedHeight(Len(group.purchases))

C6_LeftWithinArea ==
    \A g \in 1..Len(tooltipGroups) :
        /\ RLe(Rat(chart.area.left + LabelMarginX, 1), tooltipGroups[g].tooltipLeft)
        /\ RLe(tooltipGroups[g].tooltipLeft, Rat(chart.area.right - LabelMarginX, 1))

\* C6 amended: the left of every label is at most area.right - 16, and at
\* least area.left + 16 whenever area.right - area.left >= 32; in a
\* narrower area it is area.right - 16.
C6_LeftClamped ==
    \A g \in 1..Len(tooltipGroups) :
        /\ RLe(tooltipGroups[g].tooltipLeft, Rat(chart.area.right - LabelMarginX, 1))
        /\ chart.area.right - chart.area.left >= 2 * LabelMarginX
              => RLe(Rat(chart.area.left + LabelMarginX, 1), tooltipGroups[g].tooltipLeft)
        /\ chart.area.right - chart.area.left < 2 * LabelMarginX
              => tooltipGroups[g].tooltipLeft = Rat(chart.area.right - LabelMarginX, 1)

\* An anchor left of the area's left margin, its label held at area.left + 16
C6_Witness ==
    \E g \in 1..Len(tooltipGroups) :
        /\ chart.area.right - chart.area.left >= 2 * LabelMarginX
        /\ RLt(tooltipGroups[g].anchorX, Rat(chart.area.left + LabelMarginX, 1))
        /\ tooltipGroups[g].tooltipLeft = Rat(chart.area.left + LabelMarginX, 1)

MemberSet(group) == {group.purchases[k] : k \in 1..Len(group.purchases)}

DistinctInstants(group) ==
    \A j, k \in 1..Len(group.purchases) :
        j # k => InstantOf(group.purchases[j]) # InstantOf(group.purchases[k])

\* C7 as stated: a pass gives a cluster the id that the pass before gave to
\* the cluster of the same set of members, whatever the order of the list
\* and the chart of either pass.
C7_SameMembersSameId ==
    [][\A g \in 1..Len(tooltipGroups), h \in 1..Len(tooltipGroups') :
          MemberSet(tooltipGroups[g]) = MemberSet(tooltipGroups'[h])
              => tooltipGroups[g].id = tooltipGroups'[h].id]_vars

\* C7 amended: a pass gives a cluster the id that the pass before gave to
\* the cluster of the same set of members, whatever the order of the list
\* and the chart of either pass, provided no two of the members have the
\* same instant (members of equal instant are named in the order of the list).
C7_DistinctInstantsSameId ==
    [][\A g \in 1..Len(tooltipGroups), h \in 1..Len(tooltipGroups') :
          /\ MemberSet(tooltipGroups[g]) = MemberSet(tooltipGroups'[h])
          /\ DistinctInstants(tooltipGroups[g])
          => tooltipGroups[g].id = tooltipGroups'[h].id]_vars

\* A pass has stored a cluster of two purchases of different instants, the
\* list has since come back with the two in the opposite order, and the
\* next pass is due
C7_Witness ==
    /\ rafPending
    /\ chart.mounted /\ chart.xOk /\ chart.yOk /\ Len(kamasSeries) > 0
    /\ \E g \in 1..Len(tooltipGroups) :
          /\ Len(tooltipGroups[g].purchases) = 2
          /\ DistinctInstants(tooltipGroups[g])
          /\ \E i, j \in 1..Len(purchases) :
                /\ i < j
                /\ purchases[i] = tooltipGroups[g].purchases[2]
                /\ purchases[j] = tooltipGroups[g].purchases[1]

\* The purchase p is a member of a stored cluster
MemberOfSome(p) ==
    \E g \in 1..Len(tooltipGroups) :
        \E k \in 1..Len(tooltipGroups[g].purchases) :
            tooltipGroups[g].purchases[k] = p

\* C19: after a pass over a mounted chart and a series that is not empty, a
\* purchase is a member of a cluster if and only if its datetime
\* normalizes to a finite instant, the instant is not below a finite
\* scale minimum nor above a finite scale maximum, and its pixels x and y
\* are finite; with an empty series, an empty list or no chart the pass
\* stores no cluster.
C19_MemberIffInView ==
    Fresh =>
        /\ Len(kamasSeries) = 0 \/ Len(purchases) = 0 \/ ~chart.mounted
              => tooltipGroups = <<>>
        /\ Len(kamasSeries) > 0 /\ chart.mounted =>
              \A i \in 1..Len(purchases) :
                  MemberOfSome(purchases[i])
                    <=> /\ InstantOf(purchases[i]).k = "num"
                        /\ chart.xMin.k = "num"
                              => chart.xMin.v <= InstantOf(purchases[i]).v
                        /\ chart.xMax.k = "num"
                              => InstantOf(purchases[i]).v <= chart.xMax.v
                        /\ XPixel(chart, InstantOf(purchases[i]).v).k = "num"
                        /\ YPixel(chart, kamasSeries[1].y).k = "num"

\* After a pass with the view range [0, 5]: the purchase of instant 0, on
\* the bound, is a member, the purchase of instant 10 and the purchase
\* whose datetime is no date are not
C19_Witness ==
    /\ Fresh /\ chart.mounted
    /\ chart.xMin = Num(0) /\ chart.xMax = Num(5)
    /\ Len(purchases) = 3
    /\ \E i \in 1..3 : InstantOf(purchases[i]) = Num(0) /\ MemberOfSome(purchases[i])
    /\ \E i \in 1..3 : InstantOf(purchases[i]) = Num(10) /\ ~MemberOfSome(purchases[i])
    /\ \E i \in 1..3 : InstantOf(purchases[i]) = NaN /\ ~MemberOfSome(purchases[i])

\* C20: whenever a step leaves no pass due, the stored clusters are those
\* the purchases, the series and the chart of that moment give, whatever
\* was stored before the step: nothing of an earlier pass is left.
C20_RebuiltFromInputs ==
    [][~rafPending'
          => tooltipGroups' = ComputeTooltips(purchases', kamasSeries', chart')]_vars

\* A pass is due over a mounted chart while clusters of an earlier pass are
\* stored that are not the clusters of the present inputs
C20_Witness ==
    /\ rafPending
    /\ chart.mounted
    /\ Len(tooltipGroups) > 0
    /\ Len(ComputeTooltips(purchases, kamasSeries, chart)) > 0
    /\ tooltipGroups # ComputeTooltips(purchases, kamasSeries, chart)

\* C23: after a pass, the anchor x of every cluster but the first exceeds
\* the anchor x of the cluster before it by more than thresholdPx; the
\* members of a cluster are in ascending x, and purchases of the same x are
\* members of the same cluster.
C23_AscendingApart ==
    Fresh =>
        /\ \A g \in 1..(Len(tooltipGroups) - 1) :
              RLt(Rat(tooltipGroups[g].anchorX.n
                         + thresholdPx * tooltipGroups[g].anchorX.d,
                      tooltipGroups[g].anchorX.d),
                  tooltipGroups[g + 1].anchorX)
        /\ \A g \in 1..Len(tooltipGroups) :
              \A j, k \in 1..Len(tooltipGroups[g].purchases) :
                  j < k => XOf(tooltipGroups[g].purchases[j])
                              <= XOf(tooltipGroups[g].purchases[k])
        /\ \A g, h \in 1..Len(tooltipGroups) :
              \A j \in 1..Len(tooltipGroups[g].purchases) :
                  \A k \in 1..Len(tooltipGroups[h].purchases) :
                      XOf(tooltipGroups[g].purchases[j])
                            = XOf(tooltipGroups[h].purchases[k])
                          => g = h

\* After a pass: two purchases of the same x in the first cluster, a third
\* purchase further right in the second
C23_Witness ==
    /\ Fresh
    /\ Len(tooltipGroups) = 2
    /\ Len(tooltipGroups[1].purchases) = 2
    /\ XOf(tooltipGroups[1].purchases[1]) = XOf(tooltipGroups[1].purchases[2])
    /\ tooltipGroups[1].purchases[1] # tooltipGroups[1].purchases[2]
    /\ RLt(tooltipGroups[1].anchorX, tooltipGroups[2].anchorX)

\* The y of a member, and the smallest y among the members of a cluster
YOf(p) ==
    YPixel(chart, findClosestAmount(kamasSeries, InstantOf(p).v).v).v

TopmostY(group) ==
    LET ys == {YOf(group.purchases[k]) : k \in 1..Len(group.purchases)}
    IN  CHOOSE y \in ys : \A z \in ys : y <= z

--------------------------------------------------------------------------
(* Properties of the realized profit, checked under SpecSales *)

Parses(s) == IsFinite(parseTimestamp(s))

\* The sale is chronologically valid: one of the two timestamps does not
\* parse, or the sale is not before the purchase
ChronologicallyValid(p) ==
    \/ ~Parses(p.datetime)
    \/ ~Parses(p.saleDatetime)
    \/ parseTimestamp(p.saleDatetime).v >= parseTimestamp(p.datetime).v

NoStats == [saleTotal |-> Null, profit |-> Null]

\* C8: for a purchase of finite totalPrice, reconcile returns saleTotalPrice
\* and saleTotalPrice - totalPrice when saleTotalPrice is finite and the
\* sale is chronologically valid (a sale at the instant of the purchase
\* is), and null for both otherwise.
C8_Reconcile ==
    \A i \in 1..Len(purchases) :
        purchases[i].totalPrice.k = "num" =>
            computeSaleStats(purchases[i])
              = IF IsFinite(purchases[i].saleTotalPrice)
                   /\ ChronologicallyValid(purchases[i])
                THEN [saleTotal |-> purchases[i].saleTotalPrice,
                      profit |-> Num(purchases[i].saleTotalPrice.v
                                     - purchases[i].totalPrice.v)]
                ELSE NoStats

\* Loaded: a purchase sold at its own instant, with a profit, and a
\* purchase sold before it was made, with none
C8_Witness ==
    /\ ~response.pending
    /\ \E i \in 1..Len(purchases) :
          /\ Parses(purchases[i].datetime)
          /\ parseTimestamp(purchases[i].saleDatetime) = parseTimestamp(purchases[i].datetime)
          /\ computeSaleStats(purchases[i]) = [saleTotal |-> Num(300), profit |-> Num(-200)]
    /\ \E i \in 1..Len(purchases) :
          /\ Parses(purchases[i].datetime) /\ Parses(purchases[i].saleDatetime)
          /\ parseTimestamp(purchases[i].saleDatetime).v < parseTimestamp(purchases[i].datetime).v
          /\ IsFinite(purchases[i].saleTotalPrice)
          /\ computeSaleStats(purchases[i]) = NoStats

\* C9 as stated: for every purchase, saleTotal and profit are both null or
\* both non-null.
C9_BothOrNeither ==
    \A i \in 1..Len(purchases) :
        (computeSaleStats(purchases[i]).saleTotal = Null)
            <=> (computeSaleStats(purchases[i]).profit = Null)

\* C9 amended: profit is non-null exactly when saleTotal is non-null and
\* saleTotal - totalPrice is a finite number (totalPrice a finite number or
\* null); so profit is never non-null beside a null saleTotal, and beside a
\* missing or NaN totalPrice a non-null saleTotal comes with a null profit.
C9_ProfitNeedsFiniteDelta ==
    \A i \in 1..Len(purchases) :
        (computeSaleStats(purchases[i]).profit # Null)
            <=> /\ computeSaleStats(purchases[i]).saleTotal # Null
                /\ purchases[i].totalPrice.k \in {"num", "null"}

\* Loaded: a purchase without totalPrice whose sale is valid: a saleTotal
\* and no profit
C9_Witness ==
    /\ ~response.pending
    /\ \E i \in 1..Len(purchases) :
          /\ purchases[i].totalPrice = Undefined
          /\ computeSaleStats(purchases[i]) = [saleTotal |-> Num(700), profit |-> Null]

\* The profit a purchase adds to the total: its profit, or nothing
Contribution(p) ==
    IF computeSaleStats(p).profit = Null THEN 0 ELSE computeSaleStats(p).profit.v

\* The sum of the contributions of the purchases n, n - 1, ..., 1
RECURSIVE ContributionsUpTo(_, _)
ContributionsUpTo(q, n) ==
    IF n = 0 THEN 0 ELSE Contribution(q[n]) + ContributionsUpTo(q, n - 1)

\* C10: the total profit is the sum of the non-null profits of the
\* purchases, and is the same for the list with any two purchases exchanged.
C10_TotalProfit ==
    /\ totalProfit = ContributionsUpTo(purchases, Len(purchases))
    /\ \A i, j \in 1..Len(purchases) :
          i < j => TotalProfit(Swap(purchases, i, j)) = totalProfit

\* Loaded: three purchases, the second without profit, the others with
\* profits that do not cancel
C10_Witness ==
    /\ ~response.pending
    /\ Len(purchases) = 3
    /\ computeSaleStats(purchases[1]).profit # Null
    /\ computeSaleStats(purchases[2]).profit = Null
    /\ computeSaleStats(purchases[3]).profit # Null
    /\ totalProfit # 0
    /\ totalProfit # Contribution(purchases[1])

--------------------------------------------------------------------------
(* Properties of the margin table, checked under SpecMargin *)

\* The rule and the median of the row shown for key
RuleOf(key) == CfgOf(settings, key)
ReferenceOf(key) == MedianOf(medianMap, key)

\* C11 as stated: a row without median has no purchase value, in percent
\* and in absolute mode.
C11_NullReferenceNullPrice ==
    \A key \in DOMAIN rows :
        ReferenceOf(key) = Null => rows[key].purchase = NoPrice

\* C11 amended: a row without median has no profit; it has no purchase
\* value in percent mode, and in absolute mode its purchase value is the
\* configured value.
C11_NullReference ==
    \A key \in DOMAIN rows :
        ReferenceOf(key) = Null =>
            /\ rows[key].profit = NoPrice
            /\ RuleOf(key).marginType = "percent" => rows[key].purchase = NoPrice
            /\ RuleOf(key).marginType = "absolute"
                  => /\ rows[key].purchase.k = "num"
                     /\ REq(rows[key].purchase.v, Rat(RuleOf(key).value, 1))

\* Two rows without median, one in percent mode and one in absolute mode
\* with the value 150
C11_Witness ==
    \E j, k \in DOMAIN rows :
        /\ ReferenceOf(j) = Null /\ ReferenceOf(k) = Null
        /\ RuleOf(j).marginType = "percent" /\ rows[j].purchase = NoPrice
        /\ RuleOf(k).marginType = "absolute" /\ RuleOf(k).value = 150
        /\ rows[k].purchase = Price(Rat(150, 1))

\* C12: with a median, the purchase value is median * (1 - value / 100) in
\* percent mode, below zero and above the median included, and the value
\* itself in absolute mode; the profit is median - purchase value when both
\* exist and null otherwise.  10 percent of 1000 gives 900 and 100.
C12_SuggestedPriceAndProfit ==
    \A key \in DOMAIN rows :
        /\ ReferenceOf(key) # Null /\ RuleOf(key).marginType = "percent"
              => /\ rows[key].purchase.k = "num"
                 /\ rows[key].purchase.v.n * 100
                       = ReferenceOf(key).v * (100 - RuleOf(key).value)
                            * rows[key].purchase.v.d
        /\ ReferenceOf(key) # Null /\ RuleOf(key).marginType = "absolute"
              => /\ rows[key].purchase.k = "num"
                 /\ rows[key].purchase.v.n = RuleOf(key).value * rows[key].purchase.v.d
        /\ IF ReferenceOf(key) # Null /\ rows[key].purchase # NoPrice
           THEN /\ rows[key].profit.k = "num"
                /\ rows[key].profit.v.n * rows[key].purchase.v.d
                      + rows[key].purchase.v.n * rows[key].profit.v.d
                      = ReferenceOf(key).v * rows[key].profit.v.d * rows[key].purchase.v.d
           ELSE rows[key].profit = NoPrice
        /\ ReferenceOf(key) = Num(1000) /\ RuleOf(key).marginType = "percent"
              /\ RuleOf(key).value = 10
              => /\ REq(rows[key].purchase.v, Rat(900, 1))
                 /\ REq(rows[key].profit.v, Rat(100, 1))

\* The row of the example, beside a row whose negative value puts the
\* purchase value above the median
C12_Witness ==
    \E j, k \in DOMAIN rows :
        /\ ReferenceOf(j) = Num(1000) /\ RuleOf(j).marginType = "percent"
        /\ RuleOf(j).value = 10
        /\ REq(rows[j].purchase.v, Rat(900, 1)) /\ REq(rows[j].profit.v, Rat(100, 1))
        /\ ReferenceOf(k) = Num(1000) /\ RuleOf(k).marginType = "percent"
        /\ RuleOf(k).value < 0
        /\ RLt(Rat(1000, 1), rows[k].purchase.v)

\* C13: of two rows in percent mode with the same median above zero, the
\* row of the smaller value has the strictly greater purchase value.
C13_StrictlyDecreasing ==
    \A j, k \in DOMAIN rows :
        /\ RuleOf(j).marginType = "percent" /\ RuleOf(k).marginType = "percent"
        /\ ReferenceOf(j) # Null /\ ReferenceOf(j) = ReferenceOf(k)
        /\ ReferenceOf(j).v > 0
        /\ RuleOf(j).value < RuleOf(k).value
        => RLt(rows[k].purchase.v, rows[j].purchase.v)

\* Two rows in percent mode on the median 1000, with the values 150 and
\* 200: both purchase values are below zero, the second the smaller
C13_Witness ==
    \E j, k \in DOMAIN rows :
        /\ RuleOf(j).marginType = "percent" /\ RuleOf(k).marginType = "percent"
        /\ ReferenceOf(j) = Num(1000) /\ ReferenceOf(k) = Num(1000)
        /\ RuleOf(j).value = 150 /\ RuleOf(k).value = 200
        /\ REq(rows[j].purchase.v, Rat(-500, 1))
        /\ REq(rows[k].purchase.v, Rat(-1000, 1))

--------------------------------------------------------------------------
(* Properties of the timestamp normalizer, checked under SpecParse *)

\* C14: a timestamp that is the number n normalizes to n * 1000 when
\* |n| < 1e12 and to n when |n| >= 1e12, for n below zero as for n above.
C14_SecondsByMagnitude ==
    \A i \in 1..Len(points) :
        points[i].t.form = "num" =>
            parseTimestamp(points[i].t)
                = IF Abs(points[i].t.n) < SecondsLimit
                  THEN Num(points[i].t.n * MsPerSecond)
                  ELSE Num(points[i].t.n)

\* The canonical string of the instant i: Date.prototype.toISOString, which
\* exists for the instants of the range of Date, 8.64e15 ms either side of
\* the epoch, and raises a RangeError beyond
MaxDateInstant == 8640 * 1000
HasCanonicalString(i) == Abs(i) <= MaxDateInstant
ToISOString(i) == IsoStr(i)

--------------------------------------------------------------------------
(* Properties of failing timestamps, checked under SpecFaults *)

\* The string is missing, trims to the empty string, or is no date
Unparsable(t) == t.form \in {"none", "empty", "junk"}

\* C15: a timestamp that trims to the empty string or of which no
\* candidate parses normalizes to NaN; a sample whose instant is not finite
\* is not in the series, a purchase whose instant is not finite is in no
\* cluster, and a purchase or sale instant that is not finite leaves the
\* sale valid.
C15_FailuresExcluded ==
    /\ \A i \in 1..Len(points) :
          /\ Unparsable(points[i].t) => parseTimestamp(points[i].t) = NaN
          /\ ~IsFinite(parseTimestamp(points[i].t))
                => \A k \in 1..Len(kamasSeries) :
                      kamasSeries[k].rawTimestamp # points[i].t
    /\ \A k \in 1..Len(kamasSeries) :
          parseTimestamp(kamasSeries[k].rawTimestamp) = Num(kamasSeries[k].x)
    /\ \A i \in 1..Len(purchases) :
          /\ Unparsable(purchases[i].datetime)
                => parseTimestamp(purchases[i].datetime) = NaN
          /\ Fresh /\ ~IsFinite(InstantOf(purchases[i]))
                => Memberships(tooltipGroups, purchases[i]) = 0
          /\ ~IsFinite(InstantOf(purchases[i]))
                \/ ~IsFinite(parseTimestamp(purchases[i].saleDatetime))
                => computeSaleStats(purchases[i]).saleTotal = purchases[i].saleTotalPrice

\* After a pass: a sample of blanks and a sample that is no date are
\* missing from the series, a purchase that is no date and a purchase of
\* blanks are in no cluster while a third purchase is in one
C15_Witness ==
    /\ Fresh
    /\ Len(points) = 4 /\ Len(kamasSeries) = 1
    /\ Len(purchases) = 3 /\ Len(tooltipGroups) = 1
    /\ \E i \in 1..3 : purchases[i].datetime = JunkStr
    /\ \E i \in 1..3 : purchases[i].datetime = BlankStr
    /\ \E i \in 1..3 : Memberships(tooltipGroups, purchases[i]) = 1

--------------------------------------------------------------------------
(* Frame properties, checked under SpecFrame *)

\* C21: a lookup and a clustering pass change neither the samples, nor the
\* series, nor the purchases; the render that builds the series, the
\* fortune and the total profit stores the samples and the purchases as
\* the fetch gave them, contents and order.
C21_InputsUnchanged ==
    [][/\ Query \/ RafFires \/ WindowResize \/ ChartRendered
             => UNCHANGED <<points, kamasSeries, purchases>>
       /\ FetchResolved
             => points' = response.points /\ purchases' = response.purchases]_vars

\* After a lookup and a pass: the samples are still latest first beside
\* the sorted series, and the purchases still latest first beside a cluster
\* that names them earliest first
C21_Witness ==
    /\ Fresh /\ query # Null
    /\ Len(points) = 2 /\ Len(kamasSeries) = 2
    /\ kamasSeries[1].rawTimestamp = points[2].t
    /\ kamasSeries[2].rawTimestamp = points[1].t
    /\ points[1].t # points[2].t
    /\ Len(purchases) = 2
    /\ \E g \in 1..Len(tooltipGroups) :
          /\ Len(tooltipGroups[g].purchases) = 2
          /\ tooltipGroups[g].purchases[1] = purchases[2]
          /\ tooltipGroups[g].purchases[2] = purchases[1]

--------------------------------------------------------------------------
(* Triggers of the passes, checked under SpecPass *)

\* The stored clusters are those of the current purchases, series and chart
UpToDate == tooltipGroups = ComputeTooltips(purchases, kamasSeries, chart)

\* C22: a step that changes the purchases or the series leaves exactly one
\* pass due, a resize and a completed animation run a pass at once, and,
\* the inputs changing no more once the fetch has answered, from some
\* moment on the stored clusters are those of the current inputs.
C22_PassesFollowInputs ==
    /\ [][/\ purchases' # purchases \/ kamasSeries' # kamasSeries => rafPending'
          /\ WindowResize \/ ChartRendered
                => tooltipGroups' = ComputeTooltips(purchases', kamasSeries', chart')]_vars
    /\ <>[]UpToDate

\* The chart was drawn before the fetch answered: purchases and series are
\* there, no cluster is stored yet, and the pass that will store one is due
C22_Witness ==
    /\ rafPending /\ ~response.pending
    /\ chart.mounted
    /\ tooltipGroups = <<>>
    /\ ~UpToDate

--------------------------------------------------------------------------
(* Properties of the labels and their hover, checked under SpecHover *)

\* C25: every stored cluster has at least one member and no two stored
\* clusters have the same id, so the render shows at most one label; and a
\* step that stores clusters none of which has the hovered id leaves no label
\* shown.
C25_OneLabel ==
    /\ [](/\ \A g \in 1..Len(tooltipGroups) : Len(tooltipGroups[g].purchases) >= 1
          /\ \A g, h \in 1..Len(tooltipGroups) :
                g # h => tooltipGroups[g].id # tooltipGroups[h].id
          /\ Len(ShownLabels(tooltipGroups, hoveredTooltipId)) <= 1)
    /\ [][(/\ tooltipGroups' # tooltipGroups
           /\ \E g \in 1..Len(tooltipGroups) : tooltipGroups[g].id = hoveredTooltipId
           /\ \A g \in 1..Len(tooltipGroups') :
                 tooltipGroups'[g].id # hoveredTooltipId)
              => ShownLabels(tooltipGroups', hoveredTooltipId') = <<>>]_vars

\* The cluster of two purchases was hovered; a pass has split it in two, and
\* no label is shown
C25_Witness ==
    /\ hoveredTooltipId # Null
    /\ Len(hoveredTooltipId.keys) = 2
    /\ Len(tooltipGroups) = 2
    /\ ShownLabels(tooltipGroups, hoveredTooltipId) = <<>>

\* A hide of the hovered cluster is pending
Armed == \E t \in timers : t.id = hoveredTooltipId

\* C27: at most one hide timer is pending, the one hideTooltipTimeout holds;
\* showTooltip(B) leaves no timer pending and B hovered; the hover is cleared
\* only in a step that runs a timer set for the hovered cluster, and the
\* timer that runs while a hide of the hovered cluster is pending clears it;
\* and a pending hide of the hovered cluster does not stay pending for ever:
\* the hover is cleared, or a hover event has left no timer (showTooltip) or
\* the timer of another cluster (scheduleHideTooltip).
C27_HideTimer ==
    /\ [](/\ Cardinality(timers) <= 1
          /\ \A t \in timers : t.handle = hideTooltipTimeout
          /\ timers = {} => hideTooltipTimeout = NoTimer)
    /\ [][/\ \A g \in 1..Len(tooltipGroups) :
                showTooltip(tooltipGroups[g].id)
                    => timers' = {} /\ hoveredTooltipId' = tooltipGroups[g].id
          /\ hoveredTooltipId # Null /\ hoveredTooltipId' # hoveredTooltipId
                => \/ \E g \in 1..Len(tooltipGroups) :
                         hoveredTooltipId' = tooltipGroups[g].id
                   \/ /\ hoveredTooltipId' = Null
                      /\ \E t \in timers : t.id = hoveredTooltipId /\ t \notin timers']_vars
    /\ [][Armed /\ HideTimerFires => hoveredTooltipId' = Null]_vars
    /\ Armed ~> \/ hoveredTooltipId = Null
                \/ timers = {}
                \/ \E t \in timers : t.id # hoveredTooltipId

\* Cluster A is hovered while a hide set for another cluster B is pending
C27_Witness ==
    /\ hoveredTooltipId # Null
    /\ \E t \in timers : t.id # hoveredTooltipId
    /\ \E g \in 1..Len(tooltipGroups) : tooltipGroups[g].id = hoveredTooltipId

--------------------------------------------------------------------------
(* Properties of the history fetches, checked under SpecRange *)

\* C26: every step that changes points or purchases stores both lists of the
\* answer to the latest fetch, the one started for the selected time range,
\* and changes neither the range nor the fetch; the answer of a fetch that a
\* change of range has superseded changes nothing.
C26_OnlyCurrentFetch ==
    [][/\ points' # points \/ purchases' # purchases
            => /\ points' = AnswerOf(issued).points
               /\ purchases' = AnswerOf(issued).purchases
               /\ timeRange' = timeRange /\ issued' = issued
       /\ superseded' # superseded /\ issued' = issued
            => UNCHANGED <<points, purchases, kamasSeries, totalProfit>>]_vars

\* Two changes of range before any answer; the two superseded fetches have
\* answered since, the third is in flight, and nothing is stored
C26_Witness ==
    /\ issued = 3
    /\ superseded = {}
    /\ response.pending
    /\ points = <<>>
    /\ purchases = <<>>

--------------------------------------------------------------------------
(* Properties of the debounced search, checked under SpecPicker *)

\* C28: every step that changes results stores the empty list or the items
\* of the query of that moment: the answer of a search started for an
\* earlier query is not written.
C28_StaleNeverWritten ==
    [][results' # results
          => results' = <<>> \/ results' = ItemsOf(pickerQuery')]_vars

--------------------------------------------------------------------------
(* Properties of the reconnecting WebSocket, checked under SpecSocket *)

\* The sockets that have not had their close event
Unclosed == {i \in 1..Len(sockets) : sockets[i] # "closed"}

\* C29: while the handle is not closed, the close event of a socket adds one
\* reconnect timer, and there is always either one socket that has not
\* closed or one timer pending, never both; once the handle is closed, no
\* step adds a socket, the handle stays closed and no timer is added, also
\* when a timer was pending at the time of close().
C29_ReconnectUntilClosed ==
    /\ [](~stopped => Cardinality(Unclosed) + reconnects = 1)
    /\ [][/\ \A i \in Unclosed :
                ~stopped /\ sockets' = [sockets EXCEPT ![i] = "closed"]
                    => reconnects' = reconnects + 1
          /\ stopped => /\ stopped'
                        /\ Len(sockets') = Len(sockets)
                        /\ reconnects' <= reconnects]_vars

\* close() was called while a reconnect timer was pending; the timer has
\* fired since, connect has run a second time, and the first socket is still
\* the only one
C29_Witness ==
    /\ stopped
    /\ sockets = <<"closed">>
    /\ connects = 2
    /\ reconnects = 0

--------------------------------------------------------------------------
(* Properties of saving the configuration, checked under SpecEditor *)

\* C30: set_config is never sent for a text the agent rejects.
C30_InvalidNeverSent == FALSE \notin sent

====
